---- MODULE Spec2Model ----
(***************************************************************************)
(* Model of the medical query pipeline of the nillion-demo application:    *)
(* the chat interface (ChatInterface.tsx), the API client (lib/api), the   *)
(* encryption adapter (lib/encryption.ts), the medical query route         *)
(* (app/api/medical/query/route.ts), the keyword extractor and the PubMed  *)
(* retrieval (lib/pubmed.ts) and the audit log store.                      *)
(*                                                                         *)
(* Text is modelled at the level of characters: a string is a sequence of  *)
(* one-character strings, so that substring, split, includes and the       *)
(* regular expressions of the source are computed as the source computes   *)
(* them.                                                                   *)
(***************************************************************************)
EXTENDS Integers, Sequences, FiniteSets, TLC

(***************************************************************************)
(* String primitives (JavaScript String.prototype)                         *)
(***************************************************************************)
Min(a, b) == IF a < b THEN a ELSE b

Max(a, b) == IF a > b THEN a ELSE b

UpperChars == <<"A","B","C","D","E","F","G","H","I","J","K","L","M","N","O","P","Q","R","S","T","U","V","W","X","Y","Z">>

LowerChars == <<"a","b","c","d","e","f","g","h","i","j","k","l","m","n","o","p","q","r","s","t","u","v","w","x","y","z">>

DigitChars == <<"0","1","2","3","4","5","6","7","8","9">>

Range(s) == {s[i] : i \in DOMAIN s}

LowerChar(c) == IF c \in Range(UpperChars) THEN LowerChars[CHOOSE i \in 1..26 : UpperChars[i] = c] ELSE c

toLowerCase(s) == [i \in 1..Len(s) |-> LowerChar(s[i])]

\* \s of the regular expressions
IsSpace(c) == c \in {" ", "\n", "\t", "\r"}

\* \d
IsDigit(c) == c \in Range(DigitChars)

\* \w
IsWordChar(c) == c \in Range(UpperChars) \cup Range(LowerChars) \cup Range(DigitChars) \cup {"_"}

DigitValue(c) == (CHOOSE i \in 1..10 : DigitChars[i] = c) - 1

\* p occurs in t at (1-based) position i
MatchAt(t, i, p) == /\ i >= 1
                    /\ i + Len(p) - 1 <= Len(t)
                    /\ \A j \in 1..Len(p) : t[i + j - 1] = p[j]

includes(t, p) == \E i \in 1..(Len(t) - Len(p) + 1) : MatchAt(t, i, p)

\* 1-based position of the first occurrence of p in t, 0 when there is none
indexOf(t, p) == IF includes(t, p) THEN CHOOSE i \in 1..(Len(t) - Len(p) + 1) : MatchAt(t, i, p) /\ \A k \in 1..(i - 1) : ~MatchAt(t, k, p) ELSE 0

\* s.substring(a, b) for 0 <= a <= b
substring(s, a, b) == SubSeq(s, a + 1, Min(b, Len(s)))

\* arr.slice(0, n)
slice(arr, n) == SubSeq(arr, 1, Min(n, Len(arr)))

trim(s) == IF \A i \in 1..Len(s) : IsSpace(s[i]) THEN <<>> ELSE SubSeq(s, CHOOSE i \in 1..Len(s) : ~IsSpace(s[i]) /\ \A k \in 1..(i - 1) : IsSpace(s[k]), CHOOSE j \in 1..Len(s) : ~IsSpace(s[j]) /\ \A k \in (j + 1)..Len(s) : IsSpace(s[k]))

\* the least position in lo..hi that satisfies P, 0 when there is none
FirstPos(lo, hi, P(_)) == LET hits == {i \in lo..hi : P(i)} IN IF hits = {} THEN 0 ELSE CHOOSE i \in hits : \A k \in hits : i <= k

RECURSIVE splitFrom(_, _, _)
splitFrom(s, sep, start) == LET i == FirstPos(start, Len(s) - Len(sep) + 1, LAMBDA p : MatchAt(s, p, sep)) IN IF i = 0 THEN <<SubSeq(s, start, Len(s))>> ELSE <<SubSeq(s, start, i - 1)>> \o splitFrom(s, sep, i + Len(sep))

\* s.split(sep) for a non-empty separator string
split(s, sep) == splitFrom(s, sep, 1)

RECURSIVE splitSpaceFrom(_, _)
splitSpaceFrom(s, start) == LET i == FirstPos(start, Len(s), LAMBDA p : IsSpace(s[p])) IN IF i = 0 THEN <<SubSeq(s, start, Len(s))>> ELSE LET j == CHOOSE k \in i..Len(s) : (\A m \in i..k : IsSpace(s[m])) /\ (k = Len(s) \/ ~IsSpace(s[k + 1])) IN <<SubSeq(s, start, i - 1)>> \o splitSpaceFrom(s, j + 1)

\* s.split(/\s+/)
splitSpace(s) == splitSpaceFrom(s, 1)

RECURSIVE join(_, _)
join(arr, sep) == IF Len(arr) = 0 THEN <<>> ELSE IF Len(arr) = 1 THEN arr[1] ELSE arr[1] \o sep \o join(Tail(arr), sep)

\* s.replace(pat, rep) with a string pattern: the first occurrence only
replaceFirst(s, pat, rep) == LET i == indexOf(s, pat) IN IF i = 0 THEN s ELSE SubSeq(s, 1, i - 1) \o rep \o SubSeq(s, i + Len(pat), Len(s))

\* s.replace(/[...]/g, '') for a class of single characters
removeChars(s, class) == SelectSeq(s, LAMBDA c : c \notin class)

RECURSIVE removeAllFrom(_, _, _)
removeAllFrom(s, pat, start) == LET i == FirstPos(start, Len(s) - Len(pat) + 1, LAMBDA p : MatchAt(s, p, pat)) IN IF i = 0 THEN SubSeq(s, start, Len(s)) ELSE SubSeq(s, start, i - 1) \o removeAllFrom(s, pat, i + Len(pat))

\* s.replace(/pat/g, '') for a literal pattern
removeAll(s, pat) == removeAllFrom(s, pat, 1)

\* arr.filter(k => k.length > 0)
nonEmpty(arr) == SelectSeq(arr, LAMBDA k : Len(k) > 0)

\* arr.map(k => k.trim())
trimAll(arr) == [i \in 1..Len(arr) |-> trim(arr[i])]

\* Array.from(new Set(arr)): first occurrences, in insertion order
RECURSIVE dedupe(_)
dedupe(arr) == IF Len(arr) = 0 THEN <<>> ELSE LET init == dedupe(SubSeq(arr, 1, Len(arr) - 1)) IN IF arr[Len(arr)] \in Range(init) THEN init ELSE Append(init, arr[Len(arr)])

\* \b at the boundary before position i
Boundary(t, i) == (i - 1 >= 1 /\ i - 1 <= Len(t) /\ IsWordChar(t[i - 1])) # (i >= 1 /\ i <= Len(t) /\ IsWordChar(t[i]))

\* length matched at i by \b(alt1|alt2|...)\b, alternatives tried in order; 0 when none matches
WordAltLen(t, i, alts) == IF Boundary(t, i) /\ \E a \in 1..Len(alts) : MatchAt(t, i, alts[a]) /\ Boundary(t, i + Len(alts[a])) THEN Len(alts[CHOOSE a \in 1..Len(alts) : MatchAt(t, i, alts[a]) /\ Boundary(t, i + Len(alts[a])) /\ \A b \in 1..(a - 1) : ~(MatchAt(t, i, alts[b]) /\ Boundary(t, i + Len(alts[b])))]) ELSE 0

RECURSIVE matchAllWordsFrom(_, _, _)
matchAllWordsFrom(t, alts, start) == LET i == FirstPos(start, Len(t), LAMBDA p : WordAltLen(t, p, alts) > 0) IN IF i = 0 THEN <<>> ELSE <<SubSeq(t, i, i + WordAltLen(t, i, alts) - 1)>> \o matchAllWordsFrom(t, alts, i + WordAltLen(t, i, alts))

\* Array.from(t.matchAll(/\b(alt1|alt2|...)\b/g)).map(m => m[0])
matchAllWords(t, alts) == matchAllWordsFrom(t, alts, 1)

(***************************************************************************)
(* String literals of the source                                           *)
(***************************************************************************)
s_male == <<"m","a","l","e">>
s_low == <<"l","o","w">>
s_anemia == <<"a","n","e","m","i","a">>
s_mcv == <<"m","c","v">>
s_high == <<"h","i","g","h">>
s_diabetes == <<"d","i","a","b","e","t","e","s">>
s_infection == <<"i","n","f","e","c","t","i","o","n">>
s_keywords == <<"k","e","y","w","o","r","d","s">>
Q_chest == <<"I"," ","h","a","v","e"," ","c","h","e","s","t"," ","p","a","i","n"," ","a","n","d"," ","s","h","o","r","t","n","e","s","s"," ","o","f"," ","b","r","e","a","t","h">>
Q_list == <<"f","e","v","e","r",","," ","c","o","u","g","h",","," ","n","a","u","s","e","a",","," ","f","a","t","i","g","u","e",","," ","h","e","a","d","a","c","h","e">>
Pdf_cbc == <<"A","g","e"," ","7","0"," ","y","o"," ","f","e","m","a","l","e"," ","h","g","b"," ","l","o","w"," ","m","c","v"," ","h","i","g","h">>
s_doc_prefix == <<"D","o","c","u","m","e","n","t"," ","C","o","n","t","e","n","t",":","\n","\n">>
s_question_infix == <<"\n","\n","U","s","e","r"," ","Q","u","e","s","t","i","o","n",":"," ">>
A_three == <<"*","*","I","n","i","t","i","a","l"," ","A","n","a","l","y","s","i","s",":","*","*","\n","P","o","s","s","i","b","l","e"," ","a","n","e","m","i","a",".","\n","\n","*","*","K","e","y","w","o","r","d","s"," ","t","o"," ","s","e","a","r","c","h",":","*","*"," ","a","n","e","m","i","a",","," ","b","1","2",","," ","f","o","l","a","t","e">>
A_five == <<"K","e","y","w","o","r","d","s"," ","t","o"," ","s","e","a","r","c","h",":"," ","i","r","o","n",","," ","b","1","2",","," ","f","o","l","a","t","e",","," ","d","i","e","t",","," ","m","c","v">>
A_none == <<"U","n","a","b","l","e"," ","t","o"," ","a","n","a","l","y","z","e",".">>
C_short == <<"R","e","s","t",".">>
C_long == <<"S","e","e"," ","a"," ","d","o","c","t","o","r",".">>
E_body == <<"r","a","t","e"," ","l","i","m","i","t","e","d">>
K_anemia == <<"a","n","e","m","i","a">>
K_b12 == <<"b","1","2">>

\* allKeywords.slice(0, 5) / words.slice(0, 5): the size of the fallback search query
FallbackKeywordCap == 5

\* keywordArray.slice(0, 4): "Limit to 4 keywords maximum"
MaxKeywords == 4

(***************************************************************************)
(* Keyword extraction (lib/pubmed.ts, keyword extractor)                   *)
(***************************************************************************)
ageUnits == <<(<<"y","e","a","r">>), (<<"y","r">>), (<<"y",".","o",".">>), (<<"y","o">>)>>

genderAlts == <<s_male, (<<"f","e","m","a","l","e">>), (<<"m">>), (<<"f">>)>>

conditionPattern == <<s_anemia, (<<"a","n","e","m","i","c">>), (<<"a","n","e","m","e","c">>), s_diabetes, (<<"d","i","a","b","e","t","i","c">>), (<<"h","y","p","e","r","t","e","n","s","i","o","n">>), (<<"h","y","p","e","r","t","e","n","s","i","v","e">>), (<<"l","e","u","k","e","m","i","a">>), s_infection, (<<"d","e","f","i","c","i","e","n","c","y">>), (<<"d","i","s","e","a","s","e">>), (<<"s","y","n","d","r","o","m","e">>)>>

biomarkerPattern == <<(<<"h","e","m","o","g","l","o","b","i","n">>), (<<"h","g","b">>), (<<"h","e","m","a","t","o","c","r","i","t">>), (<<"h","c","t">>), (<<"w","b","c">>), (<<"r","b","c">>), (<<"p","l","a","t","e","l","e","t">>), (<<"g","l","u","c","o","s","e">>), (<<"c","h","o","l","e","s","t","e","r","o","l">>), s_mcv, (<<"m","c","h">>)>>

interventionPattern == <<(<<"t","r","e","a","t","m","e","n","t">>), (<<"t","h","e","r","a","p","y">>), (<<"m","e","d","i","c","a","t","i","o","n">>), (<<"m","e","d","i","c","i","n","e">>), (<<"d","r","u","g">>), (<<"s","u","p","p","l","e","m","e","n","t">>), (<<"v","i","t","a","m","i","n">>), (<<"d","i","e","t">>), (<<"n","u","t","r","i","t","i","o","n">>), (<<"e","x","e","r","c","i","s","e">>), (<<"i","n","t","e","r","v","e","n","t","i","o","n">>), (<<"p","r","o","c","e","d","u","r","e">>), (<<"e","a","r","t","h","i","n","g">>), (<<"g","r","o","u","n","d","i","n","g">>), (<<"a","c","u","p","u","n","c","t","u","r","e">>), (<<"m","a","s","s","a","g","e">>), (<<"y","o","g","a">>)>>

conditionPriority == <<(<<"m","a","c","r","o","c","y","t","i","c"," ","a","n","e","m","i","a">>), (<<"m","i","c","r","o","c","y","t","i","c"," ","a","n","e","m","i","a">>), s_anemia, (<<"v","i","t","a","m","i","n"," ","b","1","2"," ","d","e","f","i","c","i","e","n","c","y">>), (<<"f","o","l","a","t","e"," ","d","e","f","i","c","i","e","n","c","y">>), (<<"i","r","o","n"," ","d","e","f","i","c","i","e","n","c","y">>), s_diabetes, s_infection, (<<"l","e","u","k","e","m","i","a">>)>>

treatmentTermList == {(<<"t","r","e","a","t","m","e","n","t">>), (<<"t","h","e","r","a","p","y">>), (<<"m","a","n","a","g","e","m","e","n","t">>), (<<"m","e","d","i","c","i","n","e">>), (<<"d","r","u","g">>), (<<"i","n","t","e","r","v","e","n","t","i","o","n">>), (<<"c","u","r","e">>), (<<"r","e","m","e","d","y">>)}

\* /(\d{2,3})\s*(?:year|yr|y\.o\.|yo)/i matches at i with n digits (t lower-cased)
AgeMatchAt(t, i, n) == /\ i + n - 1 <= Len(t)
                       /\ \A d \in 0..(n - 1) : IsDigit(t[i + d])
                       /\ \E k \in 0..(Len(t) - (i + n) + 1) : /\ \A m \in 0..(k - 1) : IsSpace(t[i + n + m])
                                                               /\ \E u \in 1..Len(ageUnits) : MatchAt(t, i + n + k, ageUnits[u])

\* parseInt of the first group of the left-most match (greedy: 3 digits before 2); -1 when no match
ageMatch(t) == LET i == FirstPos(1, Len(t), LAMBDA p : AgeMatchAt(t, p, 3) \/ AgeMatchAt(t, p, 2)) IN IF i = 0 THEN -1 ELSE IF AgeMatchAt(t, i, 3) THEN 100 * DigitValue(t[i]) + 10 * DigitValue(t[i + 1]) + DigitValue(t[i + 2]) ELSE 10 * DigitValue(t[i]) + DigitValue(t[i + 1])

ageConcepts(age) == IF age < 0 THEN <<>> ELSE IF age >= 65 THEN <<(<<"e","l","d","e","r","l","y">>), (<<"g","e","r","i","a","t","r","i","c">>)>> ELSE IF age >= 18 THEN <<(<<"a","d","u","l","t">>)>> ELSE <<(<<"p","e","d","i","a","t","r","i","c">>), (<<"c","h","i","l","d","r","e","n">>)>>

\* /\b(male|female|M|F)\b/i: the left-most match, lower-cased
genderConcepts(t) == LET all == matchAllWords(t, genderAlts) IN IF Len(all) = 0 THEN <<>> ELSE IF all[1] \in {s_male, (<<"m">>)} THEN <<s_male>> ELSE <<(<<"f","e","m","a","l","e">>)>>

\* faulty variant: the microcytic test (mcv and low) comes before the macrocytic one
anemiaConcepts_microcyticFirst(t) == LET hasLowHemoglobin == (includes(t, (<<"h","e","m","o","g","l","o","b","i","n">>)) \/ includes(t, (<<"h","g","b">>))) /\ includes(t, s_low)
                                         hasLowHematocrit == (includes(t, (<<"h","e","m","a","t","o","c","r","i","t">>)) \/ includes(t, (<<"h","c","t">>))) /\ includes(t, s_low)
                                         hasLowRBC == includes(t, (<<"r","e","d"," ","b","l","o","o","d"," ","c","e","l","l">>)) /\ includes(t, s_low)
                                     IN IF hasLowHemoglobin \/ hasLowHematocrit \/ hasLowRBC
                                        THEN <<s_anemia, (<<"l","o","w"," ","h","e","m","o","g","l","o","b","i","n">>)>> \o (IF includes(t, s_mcv) /\ includes(t, s_low) THEN <<(<<"m","i","c","r","o","c","y","t","i","c"," ","a","n","e","m","i","a">>), (<<"i","r","o","n"," ","d","e","f","i","c","i","e","n","c","y">>)>> ELSE IF includes(t, s_mcv) /\ includes(t, s_high) THEN <<(<<"m","a","c","r","o","c","y","t","i","c"," ","a","n","e","m","i","a">>), (<<"v","i","t","a","m","i","n"," ","b","1","2"," ","d","e","f","i","c","i","e","n","c","y">>), (<<"f","o","l","a","t","e"," ","d","e","f","i","c","i","e","n","c","y">>)>> ELSE <<>>)
                                        ELSE <<>>

\* pubmed.ts 282-302
anemiaConcepts(t) == LET hasLowHemoglobin == (includes(t, (<<"h","e","m","o","g","l","o","b","i","n">>)) \/ includes(t, (<<"h","g","b">>))) /\ includes(t, s_low)
                         hasLowHematocrit == (includes(t, (<<"h","e","m","a","t","o","c","r","i","t">>)) \/ includes(t, (<<"h","c","t">>))) /\ includes(t, s_low)
                         hasLowRBC == includes(t, (<<"r","e","d"," ","b","l","o","o","d"," ","c","e","l","l">>)) /\ includes(t, s_low)
                     IN IF hasLowHemoglobin \/ hasLowHematocrit \/ hasLowRBC
                        THEN <<s_anemia, (<<"l","o","w"," ","h","e","m","o","g","l","o","b","i","n">>)>> \o (IF includes(t, s_mcv) /\ includes(t, s_high) THEN <<(<<"m","a","c","r","o","c","y","t","i","c"," ","a","n","e","m","i","a">>), (<<"v","i","t","a","m","i","n"," ","b","1","2"," ","d","e","f","i","c","i","e","n","c","y">>), (<<"f","o","l","a","t","e"," ","d","e","f","i","c","i","e","n","c","y">>)>> ELSE IF includes(t, s_mcv) /\ includes(t, s_low) THEN <<(<<"m","i","c","r","o","c","y","t","i","c"," ","a","n","e","m","i","a">>), (<<"i","r","o","n"," ","d","e","f","i","c","i","e","n","c","y">>)>> ELSE <<>>)
                        ELSE <<>>

otherConcepts(t) == (IF includes(t, (<<"g","l","u","c","o","s","e">>)) /\ (includes(t, s_high) \/ includes(t, (<<"e","l","e","v","a","t","e","d">>))) THEN <<s_diabetes, (<<"h","y","p","e","r","g","l","y","c","e","m","i","a">>)>> ELSE <<>>) \o (IF includes(t, (<<"w","b","c">>)) /\ includes(t, s_high) THEN <<s_infection, (<<"e","l","e","v","a","t","e","d"," ","w","b","c">>)>> ELSE <<>>)

extractMedicalConcepts(pdfText) == LET lowerText == toLowerCase(pdfText) IN dedupe(ageConcepts(ageMatch(lowerText)) \o genderConcepts(lowerText) \o anemiaConcepts(lowerText) \o otherConcepts(lowerText) \o matchAllWords(lowerText, conditionPattern) \o matchAllWords(lowerText, biomarkerPattern))

\* /"([^"]+)"/g: the first groups of the successive matches
RECURSIVE quotedFrom(_, _)
quotedFrom(t, start) == LET i == FirstPos(start, Len(t) - 2, LAMBDA p : t[p] = "\"" /\ t[p + 1] # "\"" /\ \E j \in (p + 2)..Len(t) : t[j] = "\"")
                        IN IF i = 0 THEN <<>> ELSE LET j == FirstPos(i + 2, Len(t), LAMBDA k : t[k] = "\"") IN <<SubSeq(t, i + 1, j - 1)>> \o quotedFrom(t, j + 1)

questionKeywordsOf(lowerQuestion) == dedupe(matchAllWords(lowerQuestion, interventionPattern) \o quotedFrom(lowerQuestion, 1))

extractQuestionKeywords(question) == questionKeywordsOf(toLowerCase(question))

\* extractSearchKeywords from the concepts of the document and the keywords of the
\* question on: the KeywordExtractionResult
keywordExtractionResult(pdfConcepts, questionKeywords, userQuestion) ==
    LET allKeywords == dedupe(pdfConcepts \o questionKeywords)
        hasPrimary == \E p \in 1..Len(conditionPriority) : \E k \in 1..Len(allKeywords) : includes(allKeywords[k], conditionPriority[p])
        primaryCondition == conditionPriority[CHOOSE p \in 1..Len(conditionPriority) : (\E k \in 1..Len(allKeywords) : includes(allKeywords[k], conditionPriority[p])) /\ \A q \in 1..(p - 1) : ~\E k \in 1..Len(allKeywords) : includes(allKeywords[k], conditionPriority[q])]
        treatmentTerms == SelectSeq(questionKeywords, LAMBDA k : k \in treatmentTermList)
        lowerQuestion == toLowerCase(userQuestion)
        words == SelectSeq(splitSpace(userQuestion), LAMBDA w : Len(w) > 4)
        searchQuery == IF hasPrimary
                       THEN IF Len(treatmentTerms) > 0 THEN primaryCondition \o <<" ">> \o join(treatmentTerms, <<" ">>)
                            ELSE IF includes(lowerQuestion, (<<"d","i","a","g","n","o","s">>)) \/ includes(lowerQuestion, (<<"t","r","e","a","t">>)) \/ includes(lowerQuestion, (<<"m","a","n","a","g","e","m","e","n","t">>)) THEN primaryCondition \o (<<" ","t","r","e","a","t","m","e","n","t"," ","m","a","n","a","g","e","m","e","n","t">>)
                            ELSE primaryCondition
                       ELSE IF Len(allKeywords) > 0 THEN join(slice(allKeywords, FallbackKeywordCap), <<" ">>)
                       ELSE join(slice(words, FallbackKeywordCap), <<" ">>)
    IN [keywords |-> allKeywords, hasPrimary |-> hasPrimary, primaryCondition |-> IF hasPrimary THEN primaryCondition ELSE <<>>, searchQuery |-> searchQuery]

\* pdfText is <<>> with hasPdf FALSE for a null pdfText
extractSearchKeywords(hasPdf, pdfText, userQuestion) == keywordExtractionResult(IF hasPdf /\ Len(pdfText) > 0 THEN extractMedicalConcepts(pdfText) ELSE <<>>, extractQuestionKeywords(userQuestion), userQuestion)

(***************************************************************************)
(* Keyword line of the stage-1 answer (route.ts 85-108)                    *)
(***************************************************************************)
\* a character of the class [^\n*] at position p
IsCapChar(t, p) == p >= 1 /\ p <= Len(t) /\ t[p] \notin {"\n", "*"}

\* length of the run of \s characters that starts at position j
SpaceRun(t, j) == CHOOSE k \in 0..Max(0, Len(t) - j + 1) : (\A m \in 0..(k - 1) : IsSpace(t[j + m])) /\ (j + k > Len(t) \/ ~IsSpace(t[j + k]))

\* number of characters matched by \*?\*? at position b
StarsAt(t, b) == IF b <= Len(t) /\ t[b] = "*" THEN (IF b + 1 <= Len(t) /\ t[b + 1] = "*" THEN 2 ELSE 1) ELSE 0

\* \s*\*?\*?([^\n*]+) from position base: the possible starts of the group, each with
\* its rank in the order the greedy quantifiers are backtracked
GroupStarts(t, base, offset) == LET ws == SpaceRun(t, base) IN {<<offset + (ws - x[1]) * 3 + (2 - x[2]), base + x[1] + x[2]>> : x \in {y \in (0..ws) \X (0..2) : y[2] <= StarsAt(t, base + y[1]) /\ IsCapChar(t, base + y[1] + y[2])}}

\* :?\s*\*?\*?([^\n*]+) from position j: the start of the group, 0 when the tail does not match
CaptureStart(t, j) == LET big == 3 * (Len(t) + 2)
                          cands == IF j <= Len(t) /\ t[j] = ":" THEN GroupStarts(t, j + 1, 0) \cup GroupStarts(t, j, big) ELSE GroupStarts(t, j, 0)
                      IN IF cands = {} THEN 0 ELSE (CHOOSE c \in cands : \A d \in cands : c[1] <= d[1])[2]

\* the group ([^\n*]+) that starts at p
captureAt(t, p) == SubSeq(t, p, CHOOSE e \in p..Len(t) : (\A m \in p..e : IsCapChar(t, m)) /\ ~IsCapChar(t, e + 1))

\* /(?:label1|label2|...):?\s*\*?\*?([^\n*]+)/i: the match's first position, 0 when there is none
\* the first alternative of labels that matches at i with its tail, 0 when none does
labelAt(t, lt, i, labels) == FirstPos(1, Len(labels), LAMBDA l : MatchAt(lt, i, labels[l]) /\ CaptureStart(t, i + Len(labels[l])) # 0)

\* /(?:label1|label2|...):?\s*\*?\*?([^\n*]+)/i: the match's first position, 0 when there is none
labelMatchPosIn(t, lt, labels) == FirstPos(1, Len(t), LAMBDA i : labelAt(t, lt, i, labels) # 0)

labelMatchPos(t, labels) == labelMatchPosIn(t, toLowerCase(t), labels)

\* the first group of the match at position i
labelCaptureAt(t, lt, i, labels) == captureAt(t, CaptureStart(t, i + Len(labels[labelAt(t, lt, i, labels)])))

\* the match of the pattern: found, and its first group
labelMatchIn(t, lt, i, labels) == IF i = 0 THEN [found |-> FALSE, group |-> <<>>] ELSE [found |-> TRUE, group |-> labelCaptureAt(t, lt, i, labels)]

labelMatch(t, labels) == labelMatchIn(t, toLowerCase(t), labelMatchPos(t, labels), labels)

\* the bullet character U+2022 is written as one character named by its code point
bulletPrefixes == <<(<<"2", ".">>), (<<"\\u2022">>), (<<"-">>)>>

\* length of the run of [^\n] characters that starts at position j
LineRun(t, j) == CHOOSE k \in 0..Max(0, Len(t) - j + 1) : (\A m \in 0..(k - 1) : t[j + m] # "\n") /\ (j + k > Len(t) \/ t[j + k] = "\n")

\* /(?:2\.|U+2022|\-)\s*Keywords[^\n]*:?\s*\*?\*?([^\n*]+)/i at position i: the position
\* after [^\n]* where the tail matches (greedy: the right-most one), 0 when there is none
\* the greatest position in lo..hi that satisfies P, 0 when there is none (lo >= 1)
LastPos(lo, hi, P(_)) == LET hits == {i \in lo..hi : P(i)} IN IF hits = {} THEN 0 ELSE CHOOSE i \in hits : \A k \in hits : i >= k

\* the tail Keywords[^\n]*:?\s*\*?\*?([^\n*]+) from position k (after the prefix and \s*)
keywordsTailPos(t, lt, k) == IF MatchAt(lt, k, s_keywords) THEN LastPos(k + Len(s_keywords), k + Len(s_keywords) + LineRun(t, k + Len(s_keywords)), LAMBDA j : CaptureStart(t, j) # 0) ELSE 0

prefixTailPos(t, lt, i, a) == IF a = 0 THEN 0 ELSE keywordsTailPos(t, lt, i + Len(bulletPrefixes[a]) + SpaceRun(t, i + Len(bulletPrefixes[a])))

bulletTailPosIn(t, lt, i) == prefixTailPos(t, lt, i, FirstPos(1, Len(bulletPrefixes), LAMBDA a : MatchAt(t, i, bulletPrefixes[a])))

bulletMatchPosIn(t, lt) == FirstPos(1, Len(t), LAMBDA i : bulletTailPosIn(t, lt, i) # 0)

bulletMatchPos(t) == bulletMatchPosIn(t, toLowerCase(t))

bulletMatchIn(t, lt, i) == IF i = 0 THEN [found |-> FALSE, group |-> <<>>] ELSE [found |-> TRUE, group |-> captureAt(t, CaptureStart(t, bulletTailPosIn(t, lt, i)))]

bulletMatch(t) == bulletMatchIn(t, toLowerCase(t), bulletMatchPos(t))

\* keywordMatch of route.ts 86-94: the three patterns in turn; found is FALSE when all fail
firstFound(m1, m2, m3) == IF m1.found THEN m1 ELSE IF m2.found THEN m2 ELSE m3

keywordMatch(initialAnalysis) == firstFound(labelMatch(initialAnalysis, <<(<<"k","e","y","w","o","r","d","s"," ","t","o"," ","s","e","a","r","c","h">>)>>), labelMatch(initialAnalysis, <<(<<"s","e","a","r","c","h"," ","t","e","r","m","s">>), (<<"p","u","b","m","e","d"," ","k","e","y","w","o","r","d","s">>), s_keywords>>), bulletMatch(initialAnalysis))

\* s.replace(/,$/, '')
dropTrailingComma(s) == IF Len(s) > 0 /\ s[Len(s)] = "," THEN SubSeq(s, 1, Len(s) - 1) ELSE s

\* extractedKeywords.split(',').map(k => k.trim()).filter(k => k.length > 0)
keywordArrayOf(extractedKeywords) == nonEmpty(trimAll(split(extractedKeywords, <<",">>)))

\* route.ts 97-108: the keyword text taken from the matched group, cut to MaxKeywords entries
\* (the backquote U+0060 is written as one character named by its code point)
truncateKeywords(cleaned, keywordArray) == IF Len(keywordArray) > MaxKeywords THEN join(slice(keywordArray, MaxKeywords), (<<","," ">>)) ELSE cleaned

cleanKeywords(cleaned) == truncateKeywords(cleaned, keywordArrayOf(cleaned))

keywordsFromGroup(group) == cleanKeywords(dropTrailingComma(removeChars(removeAll(trim(group), <<"*", "*">>), {"_", "\\u0060"})))

\* route.ts 114-126 and 132-144: the fallback over the document and the question
fallbackOfParts(query, parts, twoParts) == extractSearchKeywords(twoParts, IF twoParts THEN trim(replaceFirst(parts[1], (<<"D","o","c","u","m","e","n","t"," ","C","o","n","t","e","n","t",":">>), <<>>)) ELSE <<>>, IF twoParts THEN trim(parts[2]) ELSE query).searchQuery

fallbackOf(query, parts) == fallbackOfParts(query, parts, includes(query, (<<"D","o","c","u","m","e","n","t"," ","C","o","n","t","e","n","t",":">>)) /\ includes(query, (<<"U","s","e","r"," ","Q","u","e","s","t","i","o","n",":">>)) /\ Len(parts) = 2)

fallbackKeywords(query) == fallbackOf(query, split(query, (<<"U","s","e","r"," ","Q","u","e","s","t","i","o","n",":">>)))

(***************************************************************************)
(* Inputs: the texts users type and upload, and the answers of the         *)
(* external services                                                       *)
(***************************************************************************)
TypedInputs == {Q_chest, Q_list}

PdfTexts == {Pdf_cbc}

\* the request slots of the model; a slot carries one request from its sender to its response
AllReqs == {"r1", "r2"}

Reqs == {"r1"}

session_id(r) == "session_" \o r

NoMetadata == [defined |-> FALSE, encryption_type |-> "", algorithm |-> "", mode |-> "", size_bytes |-> 0]

\* the object {}
EmptyMetadata == [NoMetadata EXCEPT !.defined = TRUE]

\* bodies an HTTP client other than the chat interface posts (docs/LOCAL_TESTING.md, curl)
DirectBodies(r) == {[encrypted_query |-> q, encryption_metadata |-> m, session_id |-> session_id(r), search_literature |-> s] : q \in {Q_chest, Q_list}, m \in {NoMetadata, EmptyMetadata}, s \in BOOLEAN}

\* answers of the LLM endpoint: the call throws (network error, malformed body), or
\* answers with a status and a body
Stage1Answers == {[kind |-> "throw", status |-> 0, content |-> <<>>]} \cup {[kind |-> "http", status |-> 503, content |-> E_body]} \cup {[kind |-> "http", status |-> 200, content |-> a] : a \in {A_three, A_five, A_none}}

FinalAnswers == {[kind |-> "throw", status |-> 0, content |-> <<>>]} \cup {[kind |-> "http", status |-> st, content |-> E_body] : st \in {401, 503}} \cup {[kind |-> "http", status |-> 200, content |-> c] : c \in {C_short, C_long}}

\* faulty variant: every answer counts as a success
isOk_anyStatus(status) == TRUE

\* Response.ok
isOk(status) == status >= 200 /\ status <= 299

\* getPubMedContext(keyword, 3): retmax of the search
PerKeyword == 3

\* the identifiers the literature API lists for the k-th keyword: consecutive keywords share one
IdList(k) == [i \in 1..PerKeyword |-> "pmid" \o ToString((PerKeyword - 1) * (k - 1) + i)]

\* the records the literature API returns for a list of identifiers; the record of the
\* second identifier of a list longer than two carries no title
Records(ids) == [i \in 1..Len(ids) |-> [pmid |-> ids[i], title |-> IF i = 2 /\ Len(ids) > 2 THEN "" ELSE "title of " \o ids[i]]]

SearchAnswers(k) == {[kind |-> "throw", status |-> 0, idlist |-> <<>>], [kind |-> "http", status |-> 500, idlist |-> IdList(k)], [kind |-> "http", status |-> 200, idlist |-> <<>>], [kind |-> "http", status |-> 200, idlist |-> IdList(k)]}

FetchAnswers(ids) == {[kind |-> "throw", status |-> 0, xml |-> <<>>], [kind |-> "http", status |-> 500, xml |-> Records(ids)], [kind |-> "http", status |-> 200, xml |-> Records(ids)]}

\* answers of the audit log endpoint to the POST of an entry
AuditAnswers == {"stored", "rejected", "throw"}

(***************************************************************************)
(* State                                                                   *)
(***************************************************************************)
VARIABLES apiKey, encryptionLib, ext, auditView, att, keys, script, pc, req, srv, resp, calls, searchLog, auditLog, chat, home, call

vars == <<apiKey, encryptionLib, ext, auditView, att, keys, script, pc, req, srv, resp, calls, searchLog, auditLog, chat, home, call>>

\* what the handlers of the chat and of the query route do not write: the environment of
\* the process, the definitions of lib/encryption the bundle binds, the call of the
\* keyword extractor, and the Audit Log tab with the log file it is served from
fixedVars == <<apiKey, encryptionLib, ext, auditView, att, keys, script>>

serverVars == <<srv, resp, calls, searchLog, auditLog>>

clientVars == <<chat, home, call>>

NoReq == [encrypted_query |-> <<>>, encryption_metadata |-> NoMetadata, session_id |-> "", search_literature |-> FALSE]

\* the locals of POST (route.ts 37-40, 151-155, 194, 220, 257)
InitSrv == [initialAnalysis |-> <<>>, extractedKeywords |-> <<>>, keywordList |-> <<>>, kwIdx |-> 0, pmids |-> <<>>, articleMap |-> <<>>, citedArticles |-> <<>>, literatureContext |-> <<>>, userContent |-> <<>>, nilaiResponse |-> [status |-> 0, body |-> <<>>], data |-> <<>>]

NoResp == [status |-> 0, kind |-> "none", error |-> "", details |-> <<>>, upstream_status |-> 0, encrypted_response |-> <<>>, encryption_metadata |-> NoMetadata, cited_articles |-> <<>>, initial_analysis |-> <<>>, search_keywords |-> <<>>]

(***************************************************************************)
(* Literature retrieval (lib/pubmed.ts)                                    *)
(***************************************************************************)
\* searchPubMed: the identifier list, [] when the call throws or the status is not ok
searchPubMed(ans) == IF ans.kind = "http" /\ isOk(ans.status) THEN ans.idlist ELSE <<>>

\* parseArticlesFromXML: the records that carry both an identifier and a title
parseArticlesFromXML(xml) == SelectSeq(xml, LAMBDA a : a.pmid # "" /\ a.title # "")

\* faulty variant: the status of the answer is not looked at
fetchPubMedArticles_anyStatus(ans) == IF ans.kind = "http" THEN parseArticlesFromXML(ans.xml) ELSE <<>>

\* fetchPubMedArticles: the parsed records, [] when the call throws or the status is not ok
fetchPubMedArticles(ans) == IF ans.kind = "http" /\ isOk(ans.status) THEN parseArticlesFromXML(ans.xml) ELSE <<>>

\* faulty variant: the articles are pushed to a list, a known identifier included
mapSetAll_push(articleMap, articles) == articleMap \o articles

\* faulty variant: the map is one object of the module, shared by the requests in flight
mapSetAll_shared(articleMap, articles) == LET q == CHOOSE f \in [1..2 -> AllReqs] : f[1] # f[2]
                                              all == articleMap \o srv[q[1]].articleMap \o srv[q[2]].articleMap \o articles
                                              keep == {i \in 1..Len(all) : \A j \in 1..(i - 1) : all[j].pmid # all[i].pmid}
                                          IN [n \in 1..Cardinality(keep) |-> all[CHOOSE i \in keep : Cardinality({j \in keep : j < i}) = n - 1]]

\* articleMap.set(article.pmid, article) for each article: a known key keeps its place
RECURSIVE mapSetAll(_, _)
mapSetAll(articleMap, articles) == IF Len(articles) = 0 THEN articleMap ELSE LET a == articles[1] IN mapSetAll(IF \E i \in 1..Len(articleMap) : articleMap[i].pmid = a.pmid THEN [i \in 1..Len(articleMap) |-> IF articleMap[i].pmid = a.pmid THEN a ELSE articleMap[i]] ELSE Append(articleMap, a), Tail(articles))

\* citedArticles.slice(0, 5)
MaxCited == 5

\* Array.from(articleMap.values()).slice(0, 5)
citedOf(articleMap) == slice(articleMap, MaxCited)

RECURSIVE contextLines(_, _)
contextLines(cited, idx) == IF idx > Len(cited) THEN <<>> ELSE <<(<<"[", ToString(idx), "] ", cited[idx].title, "\nPMID: ", cited[idx].pmid>>)>> \o contextLines(cited, idx + 1)

\* route.ts 177-190: the context text; a literal of the source is one element of the text
literatureContextOf(cited) == IF Len(cited) > 0 THEN join(contextLines(cited, 1), <<"\n\n">>) ELSE <<"No relevant medical literature found.">>

\* route.ts 194-217: the user message of the final call
userContentOf(search_literature, literatureContext, initialAnalysis, query) == IF search_literature /\ Len(literatureContext) > 0 THEN <<"INITIAL ANALYSIS:\n">> \o initialAnalysis \o <<"\n\nMEDICAL LITERATURE (Top 5 Articles):\n">> \o literatureContext \o <<"\n\n---\n\nORIGINAL QUERY:\n">> \o query \o <<"\n\nNow, based on the medical literature above, please provide a comprehensive treatment recommendation that:\n1. References the initial analysis\n2. Synthesizes findings from the research articles\n3. Provides specific, evidence-based recommendations\n4. Cites studies by PMID when relevant\n\nFormat your response clearly and cite specific studies.">> ELSE query

(***************************************************************************)
(* POST /api/medical/query (route.ts), one action per stretch of code      *)
(* between two awaits                                                      *)
(***************************************************************************)
CallLLM(stage) == [kind |-> stage, keyword |-> <<>>]

CallPubMed(kind, keyword) == [kind |-> kind, keyword |-> keyword]

CallAudit == [kind |-> "audit", keyword |-> <<>>]

\* route.ts 298-303: the catch of the handler
errorResponse500 == [NoResp EXCEPT !.status = 500, !.kind = "error", !.error = "Failed to process medical query"]

\* route.ts 20-28
errorResponse401 == [NoResp EXCEPT !.status = 401, !.kind = "error", !.error = "API Key Required"]

\* faulty variant: the upstream error is answered like an exception of the handler
upstreamErrorResponse_generic(ans) == errorResponse500

\* route.ts 247-254
upstreamErrorResponse(ans) == [NoResp EXCEPT !.status = ans.status, !.kind = "error", !.error = "Nillion nilAI API error", !.details = ans.content, !.upstream_status = ans.status]

\* faulty variant: every retrieved article is returned, not the cited ones
successResponse_allRetrieved(r, s) == [NoResp EXCEPT !.status = 200, !.kind = "success", !.encrypted_response = s.data, !.encryption_metadata = IF req[r].encryption_metadata.defined THEN req[r].encryption_metadata ELSE EmptyMetadata, !.cited_articles = s.articleMap, !.initial_analysis = s.initialAnalysis, !.search_keywords = s.extractedKeywords]

\* route.ts 287-297
successResponse(r, s) == [NoResp EXCEPT !.status = 200, !.kind = "success", !.encrypted_response = s.data, !.encryption_metadata = IF req[r].encryption_metadata.defined THEN req[r].encryption_metadata ELSE EmptyMetadata, !.cited_articles = s.citedArticles, !.initial_analysis = s.initialAnalysis, !.search_keywords = s.extractedKeywords]

\* query?.substring(0, 100)
PreviewLen == 100

\* faulty variant: the whole query is written to the entry
auditEntry_wholeQuery(r, s) == [event_type |-> "medical_query", user_id |-> req[r].session_id, query_preview |-> req[r].encrypted_query, encryption_enabled |-> (req[r].encryption_metadata.defined /\ req[r].encryption_metadata.encryption_type # ""), model |-> "google/gemma-3-27b-it", tee_verified |-> TRUE, response_length |-> Len(s.data)]

\* route.ts 273-281: the body of the audit write
auditEntry(r, s) == [event_type |-> "medical_query", user_id |-> req[r].session_id, query_preview |-> substring(req[r].encrypted_query, 0, PreviewLen), encryption_enabled |-> (req[r].encryption_metadata.defined /\ req[r].encryption_metadata.encryption_type # ""), model |-> "google/gemma-3-27b-it", tee_verified |-> TRUE, response_length |-> Len(s.data)]

\* the audit log store appends the entry it accepts
appendAuditEntry(log, entry) == Append(log, entry)

\* faulty variant: the key check is left out
keyMissing_never == FALSE

\* route.ts 18: !process.env.NILLION_API_KEY
keyMissing == ~apiKey

\* route.ts 17-42 and 193-242 when no literature search is asked for
POST(r) == /\ pc[r] = "posted"
           /\ IF keyMissing
              THEN /\ resp' = [resp EXCEPT ![r] = errorResponse401]
                   /\ pc' = [pc EXCEPT ![r] = "responded"]
                   /\ UNCHANGED <<srv, calls>>
              ELSE IF req[r].search_literature
              THEN /\ calls' = [calls EXCEPT ![r] = Append(@, CallLLM("stage1"))]
                   /\ pc' = [pc EXCEPT ![r] = "stage1"]
                   /\ UNCHANGED <<srv, resp>>
              ELSE /\ srv' = [srv EXCEPT ![r].userContent = userContentOf(FALSE, <<>>, <<>>, req[r].encrypted_query)]
                   /\ calls' = [calls EXCEPT ![r] = Append(@, CallLLM("final"))]
                   /\ pc' = [pc EXCEPT ![r] = "final"]
                   /\ UNCHANGED resp
           /\ UNCHANGED <<fixedVars, req, searchLog, auditLog, clientVars>>

\* faulty variant: every keyword is searched a second time
continueSearch_again(r, s, k) == IF k >= 2 /\ Cardinality({i \in 1..Len(calls[r]) : calls[r][i].kind = "esearch"}) < 2 * (k - 1)
                                 THEN [srv |-> [s EXCEPT !.kwIdx = k - 1], call |-> CallPubMed("esearch", s.keywordList[k - 1]), pc |-> "esearch"]
                                 ELSE IF k <= Len(s.keywordList)
                                 THEN [srv |-> [s EXCEPT !.kwIdx = k], call |-> CallPubMed("esearch", s.keywordList[k]), pc |-> "esearch"]
                                 ELSE [srv |-> [s EXCEPT !.kwIdx = k, !.citedArticles = citedOf(s.articleMap), !.literatureContext = literatureContextOf(citedOf(s.articleMap)), !.userContent = userContentOf(req[r].search_literature, literatureContextOf(citedOf(s.articleMap)), s.initialAnalysis, req[r].encrypted_query)], call |-> CallLLM("final"), pc |-> "final"]

\* route.ts 158-217 from keyword k on: the next search, or the end of the loop and the final call
\* (s: the locals so far); the result is the new locals, the call issued and the next position
continueSearch(r, s, k) == IF k <= Len(s.keywordList)
                           THEN [srv |-> [s EXCEPT !.kwIdx = k], call |-> CallPubMed("esearch", s.keywordList[k]), pc |-> "esearch"]
                           ELSE LET cited == citedOf(s.articleMap)
                                    context == literatureContextOf(cited)
                                IN [srv |-> [s EXCEPT !.kwIdx = k, !.citedArticles = cited, !.literatureContext = context, !.userContent = userContentOf(req[r].search_literature, context, s.initialAnalysis, req[r].encrypted_query)], call |-> CallLLM("final"), pc |-> "final"]

\* faulty variant: no keyword line, no keywords
keywordsOfMatch_noFallback(m, query) == IF m.found THEN keywordsFromGroup(m.group) ELSE <<>>

\* route.ts 79-145: extractedKeywords after stage 1
keywordsOfMatch(m, query) == IF m.found THEN keywordsFromGroup(m.group) ELSE fallbackKeywords(query)

stage1Keywords(ans, query) == keywordsOfMatch(IF isOk(ans.status) THEN keywordMatch(ans.content) ELSE [found |-> FALSE, group |-> <<>>], query)

\* the handler goes on to its next await: its locals, the call it issues, its position
goOn(r, next) == /\ srv' = [srv EXCEPT ![r] = next.srv]
                 /\ calls' = [calls EXCEPT ![r] = Append(@, next.call)]
                 /\ pc' = [pc EXCEPT ![r] = next.pc]

\* route.ts 83, 101-151: the locals after stage 1
afterStage1(s, ans, extractedKeywords) == [s EXCEPT !.initialAnalysis = IF isOk(ans.status) THEN ans.content ELSE <<>>, !.extractedKeywords = extractedKeywords, !.keywordList = keywordArrayOf(extractedKeywords)]

\* route.ts 79-160: the stage-1 call returns
Stage1Return(r) == /\ pc[r] = "stage1"
                   /\ \E ans \in Stage1Answers :
                        IF ans.kind = "throw"
                        THEN /\ resp' = [resp EXCEPT ![r] = errorResponse500]
                             /\ pc' = [pc EXCEPT ![r] = "responded"]
                             /\ UNCHANGED <<srv, calls>>
                        ELSE /\ goOn(r, continueSearch(r, afterStage1(srv[r], ans, stage1Keywords(ans, req[r].encrypted_query)), 1))
                             /\ UNCHANGED resp
                   /\ UNCHANGED <<fixedVars, req, searchLog, auditLog, clientVars>>

\* getPubMedContext, pubmed.ts 197-204: the search call of keyword kwIdx returns
getPubMedContext_search(r) == /\ pc[r] = "esearch"
                              /\ \E ans \in SearchAnswers(srv[r].kwIdx) :
                                   LET pmids == searchPubMed(ans)
                                   IN IF Len(pmids) = 0
                                      THEN /\ goOn(r, continueSearch(r, srv[r], srv[r].kwIdx + 1))
                                           /\ searchLog' = [searchLog EXCEPT ![r] = Append(@, [keyword |-> srv[r].keywordList[srv[r].kwIdx], ok |-> (ans.kind = "http" /\ isOk(ans.status)), articles |-> <<>>])]
                                      ELSE /\ srv' = [srv EXCEPT ![r].pmids = pmids]
                                           /\ calls' = [calls EXCEPT ![r] = Append(@, CallPubMed("efetch", srv[r].keywordList[srv[r].kwIdx]))]
                                           /\ pc' = [pc EXCEPT ![r] = "efetch"]
                                           /\ UNCHANGED searchLog
                              /\ UNCHANGED <<fixedVars, req, resp, auditLog, clientVars>>

\* getPubMedContext, pubmed.ts 207-222 and route.ts 162-171: the fetch call returns
getPubMedContext_fetch(r) == /\ pc[r] = "efetch"
                             /\ \E ans \in FetchAnswers(srv[r].pmids) :
                                  LET articles == fetchPubMedArticles(ans)
                                  IN /\ goOn(r, continueSearch(r, [srv[r] EXCEPT !.articleMap = mapSetAll(@, articles), !.pmids = <<>>], srv[r].kwIdx + 1))
                                     /\ searchLog' = [searchLog EXCEPT ![r] = Append(@, [keyword |-> srv[r].keywordList[srv[r].kwIdx], ok |-> (ans.kind = "http" /\ isOk(ans.status)), articles |-> articles])]
                             /\ UNCHANGED <<fixedVars, req, resp, auditLog, clientVars>>

\* route.ts 244-282: the final call returns
FinalReturn(r) == /\ pc[r] = "final"
                  /\ \E ans \in FinalAnswers :
                       IF ans.kind = "throw"
                       THEN /\ resp' = [resp EXCEPT ![r] = errorResponse500]
                            /\ pc' = [pc EXCEPT ![r] = "responded"]
                            /\ UNCHANGED <<srv, calls>>
                       ELSE IF ~isOk(ans.status)
                       THEN /\ srv' = [srv EXCEPT ![r].nilaiResponse = [status |-> ans.status, body |-> ans.content]]
                            /\ resp' = [resp EXCEPT ![r] = upstreamErrorResponse(ans)]
                            /\ pc' = [pc EXCEPT ![r] = "responded"]
                            /\ UNCHANGED calls
                       ELSE /\ srv' = [srv EXCEPT ![r].nilaiResponse = [status |-> ans.status, body |-> ans.content], ![r].data = ans.content]
                            /\ calls' = [calls EXCEPT ![r] = Append(@, CallAudit)]
                            /\ pc' = [pc EXCEPT ![r] = "audit"]
                            /\ UNCHANGED resp
                  /\ UNCHANGED <<fixedVars, req, searchLog, auditLog, clientVars>>

\* route.ts 264-297: the audit write returns (or throws, which is caught) and the response is sent
AuditReturn(r) == /\ pc[r] = "audit"
                  /\ \E ans \in AuditAnswers : auditLog' = IF ans = "stored" THEN appendAuditEntry(auditLog, auditEntry(r, srv[r])) ELSE auditLog
                  /\ resp' = [resp EXCEPT ![r] = successResponse(r, srv[r])]
                  /\ pc' = [pc EXCEPT ![r] = "responded"]
                  /\ UNCHANGED <<fixedVars, req, srv, calls, searchLog, clientVars>>

(***************************************************************************)
(* Encryption adapter (lib/encryption.ts). The file defines encryptData    *)
(* and decryptData twice: with the Web Crypto API (32-99) and as           *)
(* placeholders (136-170); encryptionLib is the pair the bundle binds      *)
(***************************************************************************)
EncryptionLibs == {"webcrypto", "placeholder"}

\* AES-GCM under the cached key, base64 of IV and ciphertext: an IV, then one opaque
\* symbol for each character
aesGcmEncrypt(plaintext) == <<"iv">> \o [i \in 1..Len(plaintext) |-> "#" \o plaintext[i]]

\* atob and crypto.subtle.decrypt: they throw unless the input was encrypted under the key
aesGcmDecrypt(encryptedBase64) == IF Len(encryptedBase64) > 0 /\ encryptedBase64[1] = "iv" /\ \A i \in 2..Len(encryptedBase64) : \E c \in Range(UpperChars) \cup Range(LowerChars) \cup Range(DigitChars) \cup {" ", ",", ".", ":", "\n"} : encryptedBase64[i] = "#" \o c
                                 THEN [ok |-> TRUE, text |-> [i \in 1..(Len(encryptedBase64) - 1) |-> CHOOSE c \in Range(UpperChars) \cup Range(LowerChars) \cup Range(DigitChars) \cup {" ", ",", ".", ":", "\n"} : encryptedBase64[i + 1] = "#" \o c], error |-> ""]
                                 ELSE [ok |-> FALSE, text |-> <<>>, error |-> "Failed to decrypt data"]

\* encryptData: 32-70 encrypts; 136-158 prepares the metadata and returns the text as it came
encryptData(plaintext) == IF encryptionLib = "webcrypto"
                          THEN [encrypted |-> aesGcmEncrypt(plaintext), metadata |-> [defined |-> TRUE, encryption_type |-> "webcrypto-aes-gcm", algorithm |-> "AES-256-GCM", mode |-> "client-side", size_bytes |-> Len(aesGcmEncrypt(plaintext))]]
                          ELSE [encrypted |-> plaintext, metadata |-> [defined |-> TRUE, encryption_type |-> "nillion-secretvaults", algorithm |-> "server-side-encryption", mode |-> "server-side", size_bytes |-> Len(plaintext)]]

\* decryptData: 75-99 decrypts or throws 'Failed to decrypt data'; 164-170 returns its input
decryptData(encryptedBase64, metadata) == IF encryptionLib = "webcrypto" THEN aesGcmDecrypt(encryptedBase64) ELSE [ok |-> TRUE, text |-> encryptedBase64, error |-> ""]

(***************************************************************************)
(* Chat interface (components/ChatInterface.tsx 245-513) and page (Home)   *)
(***************************************************************************)
NoPdf == [present |-> FALSE, text |-> <<>>, filename |-> "", pages |-> 0]

ThePdf(text) == [present |-> TRUE, text |-> text, filename |-> "report.pdf", pages |-> 1]

\* useState initial values, ChatInterface.tsx 246-257
InitChat == [messages |-> <<>>, input |-> <<>>, isLoading |-> FALSE, error |-> "null", uploadedPdf |-> NoPdf, pdfUploading |-> FALSE, analysisComplete |-> FALSE, suggestedKeywords |-> <<>>, selectedKeywords |-> <<>>, customKeyword |-> <<>>, progressMessage |-> "", references |-> <<>>]

\* useState initial values of the page; mounted: the page is open in a browser
InitHome == [mounted |-> TRUE, encryptionEnabled |-> FALSE, queryCount |-> 0]

\* no browser has the page open: requests come from another HTTP client
NoHome == [InitHome EXCEPT !.mounted = FALSE]

\* the closure of a handler that awaits the answer to its request
NoCall == [op |-> "none", enc |-> FALSE, plaintext |-> <<>>, searchQuery |-> <<>>, responseContent |-> <<>>]

Message(role, content, encrypted) == [role |-> role, content |-> content, encrypted |-> encrypted]

\* faulty variant: the metadata never names an encryption type
homomorphicMetadata_unset(enc) == EmptyMetadata

\* ChatInterface.tsx 321-323 and 374-376
homomorphicMetadata(enc) == IF enc THEN [EmptyMetadata EXCEPT !.encryption_type = "homomorphic"] ELSE EmptyMetadata

\* lib/api sendMedicalQuery: the body of the request
requestBody(r, queryData, metadata, search_literature) == [encrypted_query |-> queryData, encryption_metadata |-> metadata, session_id |-> session_id(r), search_literature |-> search_literature]

\* lib/api sendMedicalQuery 43-46: the message of the error thrown for a response that is not ok
sendMedicalQueryError == "Failed to process medical query"

\* the form of ChatInterface.tsx 739-761 is rendered
formVisible == ~chat.uploadedPdf.present /\ ~chat.analysisComplete

\* the keyword panel of ChatInterface.tsx 658 is rendered
panelVisible == chat.analysisComplete /\ Len(chat.suggestedKeywords) > 0

\* EncryptionStatus onToggle -> setEncryptionEnabled
onToggle == /\ home.mounted
            /\ home' = [home EXCEPT !.encryptionEnabled = ~@]
            /\ UNCHANGED <<fixedVars, pc, req, serverVars, chat, call>>

\* the text input's onChange (ChatInterface.tsx 744), disabled while loading
setInput == /\ home.mounted
            /\ formVisible
            /\ ~chat.isLoading
            /\ \E text \in TypedInputs : /\ text # chat.input
                                         /\ chat' = [chat EXCEPT !.input = text]
            /\ UNCHANGED <<fixedVars, pc, req, serverVars, home, call>>

\* handleSubmit up to the await of sendMedicalQuery (433-483)
handleSubmit(r) == /\ pc[r] = "idle"
                   /\ formVisible
                   /\ Len(trim(chat.input)) > 0
                   /\ ~chat.isLoading
                   /\ LET enc == home.encryptionEnabled
                          finalQuery == IF chat.uploadedPdf.present THEN s_doc_prefix \o chat.uploadedPdf.text \o s_question_infix \o chat.input ELSE chat.input
                          encrypted == encryptData(finalQuery)
                          queryData == IF enc THEN encrypted.encrypted ELSE finalQuery
                          encryptionMetadata == IF enc THEN encrypted.metadata ELSE EmptyMetadata
                      IN /\ chat' = [chat EXCEPT !.messages = Append(@, Message("user", chat.input, enc)), !.input = <<>>, !.isLoading = TRUE, !.error = "null", !.references = <<>>, !.progressMessage = "Processing your query..."]
                         /\ req' = [req EXCEPT ![r] = requestBody(r, queryData, encryptionMetadata, FALSE)]
                         /\ call' = [call EXCEPT ![r] = [NoCall EXCEPT !.op = "submit", !.enc = enc, !.plaintext = finalQuery]]
                   /\ pc' = [pc EXCEPT ![r] = "posted"]
                   /\ UNCHANGED <<fixedVars, serverVars, home>>

\* faulty variant: a server error leaves the loading state on
handleSubmit_then_noFinally(r) == /\ pc[r] = "responded"
                                  /\ call[r].op = "submit"
                                  /\ LET decrypted == IF call[r].enc THEN decryptData(resp[r].encrypted_response, resp[r].encryption_metadata) ELSE [ok |-> TRUE, text |-> resp[r].encrypted_response, error |-> ""]
                                     IN IF ~isOk(resp[r].status)
                                        THEN /\ chat' = [chat EXCEPT !.error = sendMedicalQueryError]
                                             /\ UNCHANGED home
                                        ELSE IF ~decrypted.ok
                                        THEN /\ chat' = [chat EXCEPT !.error = decrypted.error, !.isLoading = FALSE, !.progressMessage = ""]
                                             /\ UNCHANGED home
                                        ELSE /\ chat' = [chat EXCEPT !.messages = Append(@, Message("assistant", decrypted.text, call[r].enc)), !.isLoading = FALSE, !.progressMessage = ""]
                                             /\ home' = [home EXCEPT !.queryCount = @ + 1]
                                  /\ pc' = [pc EXCEPT ![r] = "closed"]
                                  /\ UNCHANGED <<fixedVars, req, serverVars, call>>

\* handleSubmit after the await (485-512)
handleSubmit_then(r) == /\ pc[r] = "responded"
                        /\ call[r].op = "submit"
                        /\ LET decrypted == IF call[r].enc THEN decryptData(resp[r].encrypted_response, resp[r].encryption_metadata) ELSE [ok |-> TRUE, text |-> resp[r].encrypted_response, error |-> ""]
                           IN IF ~isOk(resp[r].status)
                              THEN /\ chat' = [chat EXCEPT !.error = sendMedicalQueryError, !.isLoading = FALSE, !.progressMessage = ""]
                                   /\ UNCHANGED home
                              ELSE IF ~decrypted.ok
                              THEN /\ chat' = [chat EXCEPT !.error = decrypted.error, !.isLoading = FALSE, !.progressMessage = ""]
                                   /\ UNCHANGED home
                              ELSE /\ chat' = [chat EXCEPT !.messages = Append(@, Message("assistant", decrypted.text, call[r].enc)), !.isLoading = FALSE, !.progressMessage = ""]
                                   /\ home' = [home EXCEPT !.queryCount = @ + 1]
                        /\ pc' = [pc EXCEPT ![r] = "closed"]
                        /\ UNCHANGED <<fixedVars, req, serverVars, call>>

\* handlePdfUpload up to the await of the text extraction (269-285); the button is
\* disabled while uploading or loading (645)
handlePdfUpload == /\ home.mounted
                   /\ ~chat.pdfUploading
                   /\ ~chat.isLoading
                   /\ chat' = [chat EXCEPT !.pdfUploading = TRUE, !.error = "null"]
                   /\ UNCHANGED <<fixedVars, pc, req, serverVars, home, call>>

\* handlePdfUpload when the extraction failed (287-290, 303-310)
handlePdfUpload_failed == /\ chat.pdfUploading
                          /\ \A r \in AllReqs : call[r].op # "analyze" \/ pc[r] = "closed"
                          /\ chat' = [chat EXCEPT !.error = "Failed to extract PDF text", !.pdfUploading = FALSE]
                          /\ UNCHANGED <<fixedVars, pc, req, serverVars, home, call>>

\* ChatInterface.tsx 319: the query of the automatic analysis
analysisQuery(pdfText) == s_doc_prefix \o pdfText \o s_question_infix \o (<<"A","n","a","l","y","z","e"," ","t","h","i","s"," ","m","e","d","i","c","a","l"," ","r","e","p","o","r","t"," ","a","n","d"," ","p","r","o","v","i","d","e"," ","a"," ","d","i","a","g","n","o","s","i","s"," ","w","i","t","h"," ","r","e","l","e","v","a","n","t"," ","a","b","n","o","r","m","a","l"," ","f","i","n","d","i","n","g","s",".">>)

\* handlePdfUpload when the text is extracted (292-302), and analyzeDocument up to the
\* await of sendMedicalQuery (314-332)
analyzeDocument(r) == /\ pc[r] = "idle"
                      /\ chat.pdfUploading
                      /\ \A q \in AllReqs : call[q].op # "analyze" \/ pc[q] = "closed"
                      /\ \E pdfText \in PdfTexts :
                           LET enc == home.encryptionEnabled
                               queryData == analysisQuery(pdfText)
                           IN /\ chat' = [chat EXCEPT !.uploadedPdf = ThePdf(pdfText), !.isLoading = TRUE, !.progressMessage = "Analyzing medical report..."]
                              /\ req' = [req EXCEPT ![r] = requestBody(r, queryData, homomorphicMetadata(enc), TRUE)]
                              /\ call' = [call EXCEPT ![r] = [NoCall EXCEPT !.op = "analyze", !.enc = enc, !.plaintext = queryData]]
                      /\ pc' = [pc EXCEPT ![r] = "posted"]
                      /\ UNCHANGED <<fixedVars, serverVars, home>>

\* analyzeDocument after the await (334-360), and the finally of handlePdfUpload (306-310)
analyzeDocument_then(r) == /\ pc[r] = "responded"
                           /\ call[r].op = "analyze"
                           /\ IF isOk(resp[r].status)
                              THEN LET keywords == keywordArrayOf(resp[r].search_keywords)
                                       withAnalysis == IF Len(resp[r].initial_analysis) > 0 THEN Append(chat.messages, Message("assistant", <<"**INITIAL ANALYSIS**\n\n">> \o resp[r].initial_analysis, FALSE)) ELSE chat.messages
                                   IN chat' = IF Len(resp[r].search_keywords) > 0
                                              THEN [chat EXCEPT !.messages = withAnalysis, !.suggestedKeywords = keywords, !.selectedKeywords = keywords, !.analysisComplete = TRUE, !.isLoading = FALSE, !.progressMessage = "", !.pdfUploading = FALSE]
                                              ELSE [chat EXCEPT !.messages = withAnalysis, !.isLoading = FALSE, !.progressMessage = "", !.pdfUploading = FALSE]
                              ELSE chat' = [chat EXCEPT !.error = sendMedicalQueryError, !.isLoading = FALSE, !.progressMessage = "", !.pdfUploading = FALSE]
                           /\ pc' = [pc EXCEPT ![r] = "closed"]
                           /\ UNCHANGED <<fixedVars, req, serverVars, home, call>>

\* handleSearchLiterature up to the await of sendMedicalQuery (363-384); the button is
\* disabled without a selection and while loading (727)
handleSearchLiterature(r) == /\ pc[r] = "idle"
                             /\ panelVisible
                             /\ Len(chat.selectedKeywords) > 0
                             /\ ~chat.isLoading
                             /\ chat.uploadedPdf.present
                             /\ LET enc == home.encryptionEnabled
                                    searchQuery == join(chat.selectedKeywords, (<<","," ">>))
                                    queryData == s_doc_prefix \o chat.uploadedPdf.text \o s_question_infix \o (<<"B","a","s","e","d"," ","o","n"," ","t","h","i","s"," ","r","e","p","o","r","t",","," ","s","e","a","r","c","h"," ","f","o","r"," ","t","r","e","a","t","m","e","n","t"," ","o","p","t","i","o","n","s"," ","u","s","i","n","g"," ","t","h","e","s","e"," ","k","e","y","w","o","r","d","s",":"," ">>) \o searchQuery
                                IN /\ chat' = [chat EXCEPT !.isLoading = TRUE, !.progressMessage = "Searching PubMed database...", !.references = <<>>]
                                   /\ req' = [req EXCEPT ![r] = requestBody(r, queryData, homomorphicMetadata(enc), TRUE)]
                                   /\ call' = [call EXCEPT ![r] = [NoCall EXCEPT !.op = "search", !.enc = enc, !.plaintext = queryData, !.searchQuery = searchQuery]]
                             /\ pc' = [pc EXCEPT ![r] = "posted"]
                             /\ UNCHANGED <<fixedVars, serverVars, home>>

\* handleSearchLiterature after the await of sendMedicalQuery (386-405), up to the 500 ms pause
handleSearchLiterature_then(r) == /\ pc[r] = "responded"
                                  /\ call[r].op = "search"
                                  /\ LET decrypted == IF call[r].enc THEN decryptData(resp[r].encrypted_response, resp[r].encryption_metadata) ELSE [ok |-> TRUE, text |-> resp[r].encrypted_response, error |-> ""]
                                     IN IF ~isOk(resp[r].status)
                                        THEN /\ chat' = [chat EXCEPT !.error = sendMedicalQueryError, !.isLoading = FALSE, !.progressMessage = ""]
                                             /\ pc' = [pc EXCEPT ![r] = "closed"]
                                             /\ UNCHANGED call
                                        ELSE IF ~decrypted.ok
                                        THEN /\ chat' = [chat EXCEPT !.error = decrypted.error, !.isLoading = FALSE, !.progressMessage = ""]
                                             /\ pc' = [pc EXCEPT ![r] = "closed"]
                                             /\ UNCHANGED call
                                        ELSE /\ chat' = [chat EXCEPT !.messages = Append(@, Message("assistant", <<"**Literature Search Results**\n\nSearched for: ">> \o call[r].searchQuery \o <<"\n\nFound ", ToString(Len(resp[r].cited_articles)), " relevant studies.">>, FALSE))]
                                             /\ call' = [call EXCEPT ![r].responseContent = decrypted.text]
                                             /\ pc' = [pc EXCEPT ![r] = "pause"]
                                  /\ UNCHANGED <<fixedVars, req, serverVars, home>>

\* handleSearchLiterature after the pause (407-430)
handleSearchLiterature_synthesis(r) == /\ pc[r] = "pause"
                                       /\ chat' = [chat EXCEPT !.messages = Append(@, Message("assistant", <<"**RESEARCH-BACKED RECOMMENDATIONS**\n\n">> \o call[r].responseContent, call[r].enc)), !.references = IF Len(resp[r].cited_articles) > 0 THEN resp[r].cited_articles ELSE @, !.isLoading = FALSE, !.progressMessage = ""]
                                       /\ home' = [home EXCEPT !.queryCount = @ + 1]
                                       /\ pc' = [pc EXCEPT ![r] = "closed"]
                                       /\ UNCHANGED <<fixedVars, req, serverVars, call>>

\* a request posted by another HTTP client (docs/LOCAL_TESTING.md 168). The handlers of
\* the page read and write nothing the route handler reads, so the model sends it while
\* no page is open and leaves out their interleavings with it
DirectRequest(r) == /\ pc[r] = "idle"
                    /\ ~home.mounted
                    /\ \E body \in DirectBodies(r) : req' = [req EXCEPT ![r] = body]
                    /\ call' = [call EXCEPT ![r] = [NoCall EXCEPT !.op = "direct"]]
                    /\ pc' = [pc EXCEPT ![r] = "posted"]
                    /\ UNCHANGED <<fixedVars, serverVars, chat, home>>

(***************************************************************************)
(* The keyword extractor called on its own (lib/pubmed.ts 366-441)         *)
(***************************************************************************)
\* the longest document is MaxFragments fragments long
MaxFragments == 4

DocFragments == {(<<"H","e","m","o","g","l","o","b","i","n">>), (<<"H","G","B">>), s_low, (<<"M","C","V">>), (<<"H","i","g","h">>), (<<"g","l","u","c","o","s","e">>)}

\* the documents: fragments separated by a space; pdfText is null as well
DocTexts == {join(f, <<" ">>) : f \in UNION {[1..n -> DocFragments] : n \in 0..MaxFragments}}

Q_words == <<"a","l","p","h","a"," ","b","r","a","v","o"," ","d","e","l","t","a"," ","h","o","t","e","l"," ","i","n","d","i","a"," ","j","u","l","i","e","t","t">>

Q_treatment == <<"W","h","a","t"," ","t","r","e","a","t","m","e","n","t"," ","h","e","l","p","s">>

Questions == {Q_chest, Q_list, Q_words, Q_treatment}

\* the calls: a document of fragments with one question, and every question without a
\* document or with one that matches no pattern
ExtractInputs == {<<TRUE, d, Q_chest>> : d \in DocTexts} \cup {<<h, d, q>> : h \in BOOLEAN, d \in {<<>>, (<<"n","o","r","m","a","l">>)}, q \in Questions}

NoResult == [keywords |-> <<>>, hasPrimary |-> FALSE, primaryCondition |-> <<>>, searchQuery |-> <<>>]

\* the arguments and the locals of extractSearchKeywords; off: it is not being called
NoExt == [pc |-> "off", hasPdf |-> FALSE, pdfText |-> <<>>, userQuestion |-> <<>>, pdfConcepts |-> <<>>, questionKeywords |-> <<>>, result |-> NoResult]

\* pubmed.ts 374: pdfConcepts
extractSearchKeywords_pdfConcepts == /\ ext.pc = "start"
                                     /\ ext' = [ext EXCEPT !.pdfConcepts = IF ext.hasPdf /\ Len(ext.pdfText) > 0 THEN extractMedicalConcepts(ext.pdfText) ELSE <<>>, !.pc = "question"]
                                     /\ UNCHANGED <<apiKey, encryptionLib, auditView, att, keys, script, pc, req, serverVars, clientVars>>

\* pubmed.ts 375: questionKeywords
extractSearchKeywords_questionKeywords == /\ ext.pc = "question"
                                          /\ ext' = [ext EXCEPT !.questionKeywords = extractQuestionKeywords(ext.userQuestion), !.pc = "combine"]
                                          /\ UNCHANGED <<apiKey, encryptionLib, auditView, att, keys, script, pc, req, serverVars, clientVars>>

\* pubmed.ts 378-440: the result
extractSearchKeywords_return == /\ ext.pc = "combine"
                                /\ ext' = [ext EXCEPT !.result = keywordExtractionResult(ext.pdfConcepts, ext.questionKeywords, ext.userQuestion), !.pc = "done"]
                                /\ UNCHANGED <<apiKey, encryptionLib, auditView, att, keys, script, pc, req, serverVars, clientVars>>

(***************************************************************************)
(* Audit Log tab (components/AuditLog.tsx) and GET /api/audit/summary      *)
(***************************************************************************)
\* the log file holds at most MaxLogged entries
MaxLogged == 2

\* the entries of .next/audit-logs.json: what the query route wrote for a completed query,
\* and the age in hours of its timestamp; an entry of another writer may name no model
LoggedEntries == {[event_type |-> "medical_query", user_id |-> session_id(r), encryption_enabled |-> e, model |-> m, tee_verified |-> TRUE, response_length |-> Len(c), age |-> a] : r \in AllReqs, e \in BOOLEAN, m \in {"google/gemma-3-27b-it", "undefined"}, c \in {C_short, C_long}, a \in {0, 30}}

\* the options of the time range (AuditLog.tsx 144-147)
HourOptions == {1, 24, 168}

\* useState initial values, AuditLog.tsx 12-17; logFile: the file the endpoint reads
NoAuditView == [pc |-> "off", logFile |-> <<>>, hours |-> 24, summaryData |-> [error |-> "none"], summary |-> [error |-> "null"], error |-> "null", loading |-> FALSE]

\* Math.round of a quotient of two naturals
roundDiv(a, b) == (2 * a + b) \div (2 * b)

RECURSIVE sumOf(_)
sumOf(ns) == IF Len(ns) = 0 THEN 0 ELSE ns[1] + sumOf(Tail(ns))

\* summary/route.ts 48: log.model || 'unknown'
modelOf(log) == IF log.model = "undefined" THEN "unknown" ELSE log.model

\* faulty variant: the time range is not applied
summaryOf_wholeLog(auditLogs, hours) == LET recentLogs == auditLogs
                                   totalQueries == Len(recentLogs)
                                   encryptedQueries == Len(SelectSeq(recentLogs, LAMBDA log : log.encryption_enabled))
                               IN [period_hours |-> hours, total_queries |-> totalQueries, encrypted_queries |-> encryptedQueries, tee_verified_queries |-> Len(SelectSeq(recentLogs, LAMBDA log : log.tee_verified)), unique_sessions |-> Cardinality({recentLogs[i].user_id : i \in 1..Len(recentLogs)}), encryption_rate |-> IF totalQueries > 0 THEN roundDiv(encryptedQueries * 100, totalQueries) ELSE 0, avg_response_length |-> IF totalQueries > 0 THEN roundDiv(sumOf([i \in 1..Len(recentLogs) |-> recentLogs[i].response_length]), totalQueries) ELSE 0, model_usage |-> [m \in {modelOf(recentLogs[i]) : i \in 1..Len(recentLogs)} |-> Len(SelectSeq(recentLogs, LAMBDA log : modelOf(log) = m))]]

\* summary/route.ts 24-62: the summary object
summaryOf(auditLogs, hours) == LET recentLogs == SelectSeq(auditLogs, LAMBDA log : log.age <= hours)
                                   totalQueries == Len(recentLogs)
                                   encryptedQueries == Len(SelectSeq(recentLogs, LAMBDA log : log.encryption_enabled))
                               IN [period_hours |-> hours, total_queries |-> totalQueries, encrypted_queries |-> encryptedQueries, tee_verified_queries |-> Len(SelectSeq(recentLogs, LAMBDA log : log.tee_verified)), unique_sessions |-> Cardinality({recentLogs[i].user_id : i \in 1..Len(recentLogs)}), encryption_rate |-> IF totalQueries > 0 THEN roundDiv(encryptedQueries * 100, totalQueries) ELSE 0, avg_response_length |-> IF totalQueries > 0 THEN roundDiv(sumOf([i \in 1..Len(recentLogs) |-> recentLogs[i].response_length]), totalQueries) ELSE 0, model_usage |-> [m \in {modelOf(recentLogs[i]) : i \in 1..Len(recentLogs)} |-> Len(SelectSeq(recentLogs, LAMBDA log : modelOf(log) = m))]]

\* AuditLog.tsx 88, 97, 115: {summary.totals?.<field> || 0}
displayedTotal(summary, field) == IF "totals" \in DOMAIN summary /\ field \in DOMAIN summary.totals THEN summary.totals[field] ELSE 0

\* the time range is chosen, or Refresh is clicked: fetchLogs up to its await (19-26)
fetchLogs == /\ auditView.pc \in {"idle", "shown"}
             /\ ~auditView.loading
             /\ \E h \in HourOptions : auditView' = [auditView EXCEPT !.hours = h, !.loading = TRUE, !.error = "null", !.pc = "fetching"]
             /\ UNCHANGED <<apiKey, encryptionLib, ext, att, keys, script, pc, req, serverVars, clientVars>>

\* GET /api/audit/summary answers (summary/route.ts 19-71); the calls of fetchLogs may fail
GET == /\ auditView.pc = "fetching"
       /\ \E ok \in BOOLEAN : auditView' = [auditView EXCEPT !.summaryData = IF ok THEN summaryOf(auditView.logFile, auditView.hours) ELSE [error |-> "Failed to fetch audit summary"], !.pc = "answered"]
       /\ UNCHANGED <<apiKey, encryptionLib, ext, att, keys, script, pc, req, serverVars, clientVars>>

\* fetchLogs after its await (27-33)
fetchLogs_then == /\ auditView.pc = "answered"
                  /\ auditView' = IF "error" \in DOMAIN auditView.summaryData
                                  THEN [auditView EXCEPT !.error = auditView.summaryData.error, !.loading = FALSE, !.pc = "shown"]
                                  ELSE [auditView EXCEPT !.summary = auditView.summaryData, !.loading = FALSE, !.pc = "shown"]
                  /\ UNCHANGED <<apiKey, encryptionLib, ext, att, keys, script, pc, req, serverVars, clientVars>>

(***************************************************************************)
(* GET /api/attestation/proof (app/api/attestation/proof/route.ts)         *)
(***************************************************************************)
\* the endpoint is called at most MaxProofs times
MaxProofs == 3

\* answers of the attestation service: the call throws, or answers with a status and a
\* body (a report with its measurement, a report without one, or no JSON at all)
AttestationAnswers == {[kind |-> "throw", status |-> 0, body |-> "none"]} \cup {[kind |-> "http", status |-> 503, body |-> "none"]} \cup {[kind |-> "http", status |-> 200, body |-> b] : b \in {"measurement", "no measurement", "malformed"}}

\* no call of the attestation service was made
NoAnswer == [kind |-> "none", status |-> 0, body |-> "none"]

\* Math.random().toString(36).substr(2, 9), route.ts 67
RandomSuffixes == {"k3x9", "p07q"}

\* route.ts 29-41 and 71-83: the same literal in both responses
attestation_proof == [type |-> "AMD-SEV-SNP", tcb_version |-> "0x0000000000000003", code_hash |-> "a7f3c9e2", data_hash |-> "f0e1d2c3"]

\* route.ts 43-59 and 85-101: the same literal in both responses
chain_of_trust == <<[level |-> "Hardware", status |-> "verified"], [level |-> "Firmware", status |-> "verified"], [level |-> "Runtime", status |-> "verified"]>>

\* route.ts 24-61: the response built from the report
realProof(body) == [status |-> 200, proof_id |-> "att_now", verified |-> TRUE, enclave_hash |-> IF body = "measurement" THEN "report.measurement" ELSE "nillion-tee-verified", attestation_proof |-> attestation_proof, verification_status |-> "VERIFIED", chain_of_trust |-> chain_of_trust, raw_attestation |-> body, error |-> "undefined"]

\* faulty variant: the fallback is labelled as verified
demoProof_verified(suffix, message) == [status |-> 200, proof_id |-> "att_demo_" \o suffix, verified |-> TRUE, enclave_hash |-> "a7f3c9e2", attestation_proof |-> attestation_proof, verification_status |-> "VERIFIED", chain_of_trust |-> chain_of_trust, raw_attestation |-> "undefined", error |-> message]

\* route.ts 62-103: the response of the catch
demoProof(suffix, message) == [status |-> 200, proof_id |-> "att_demo_" \o suffix, verified |-> TRUE, enclave_hash |-> "a7f3c9e2", attestation_proof |-> attestation_proof, verification_status |-> "DEMO_MODE", chain_of_trust |-> chain_of_trust, raw_attestation |-> "undefined", error |-> message]

\* route.ts 7, 18, and what fetch and json() throw
errorMessage(ans) == IF ans.kind = "none" THEN "API key not configured"
                     ELSE IF ans.kind = "throw" THEN "fetch failed"
                     ELSE IF ~isOk(ans.status) THEN "Attestation API error: " \o ToString(ans.status)
                     ELSE "Unexpected token"

\* route.ts 10-21: the call returned a success status and a JSON body
reportObtained(ans) == ans.kind = "http" /\ isOk(ans.status) /\ ans.body # "malformed"

\* useState and the module state of the route: the calls made, the answers they got and
\* the responses sent, one per request
NoAtt == [pc |-> "idle", fetches |-> 0, answers |-> <<>>, proofs |-> <<>>]

\* route.ts 5-15: GET up to its await; without the key, the throw of 7 and the catch
attestation_GET == /\ att.pc = "idle"
                   /\ Len(att.proofs) < MaxProofs
                   /\ IF keyMissing
                      THEN \E suffix \in RandomSuffixes : att' = [att EXCEPT !.answers = Append(@, NoAnswer), !.proofs = Append(@, demoProof(suffix, errorMessage(NoAnswer)))]
                      ELSE att' = [att EXCEPT !.fetches = @ + 1, !.pc = "fetching"]
                   /\ UNCHANGED <<apiKey, encryptionLib, ext, auditView, keys, script, pc, req, serverVars, clientVars>>

\* route.ts 17-103: the call of the attestation service returns or throws
attestation_GET_then == /\ att.pc = "fetching"
                        /\ \E ans \in AttestationAnswers :
                             IF reportObtained(ans)
                             THEN att' = [att EXCEPT !.answers = Append(@, ans), !.proofs = Append(@, realProof(ans.body)), !.pc = "idle"]
                             ELSE \E suffix \in RandomSuffixes : att' = [att EXCEPT !.answers = Append(@, ans), !.proofs = Append(@, demoProof(suffix, errorMessage(ans))), !.pc = "idle"]
                        /\ UNCHANGED <<apiKey, encryptionLib, ext, auditView, keys, script, pc, req, serverVars, clientVars>>

(***************************************************************************)
(* The cached key of lib/encryption.ts (getEncryptionKey 15-27, and        *)
(* getSecretKey 193-201 of the blindfold definitions, of the same shape)   *)
(***************************************************************************)
\* the calls of encryptData and decryptData that may be under way at once
Callers == {"a", "b"}

\* each caller makes at most MaxOps calls
MaxOps == 2

\* the texts the callers encrypt
Plaintexts == {K_anemia, K_b12}

\* crypto.subtle.encrypt (encryption.ts 42-53): the ciphertext can be opened with its key only
aesGcmEncryptWith(key, plaintext) == [key |-> key, data |-> aesGcmEncrypt(plaintext)]

\* crypto.subtle.decrypt (encryption.ts 80-98): a ciphertext of another key is rejected
aesGcmDecryptWith(key, encrypted) == IF encrypted.key = key THEN aesGcmDecrypt(encrypted.data) ELSE [ok |-> FALSE, text |-> <<>>, error |-> "Failed to decrypt data"]

NoCiphertext == [key |-> 0, data |-> <<>>]

\* a caller between two calls
IdleCaller == [pc |-> "idle", op |-> "none", key |-> 0, plaintext |-> <<>>, encrypted |-> NoCiphertext, ops |-> 0]

\* let cachedKey = null (15), 0 in the model; generated: the calls of generateKey that
\* have resolved; produced and opened: what encryptData and decryptData have returned
NoKeys == [cachedKey |-> 0, generated |-> 0, proc |-> [c \in Callers |-> IdleCaller], produced |-> {}, opened |-> {}]

\* getEncryptionKey up to its await (17-24), called from encryptData 37 or decryptData 80
getEncryptionKey(c, op, plaintext, encrypted) == IF keys.cachedKey = 0
                                                 THEN [keys EXCEPT !.proc[c] = [pc |-> "generating", op |-> op, key |-> 0, plaintext |-> plaintext, encrypted |-> encrypted, ops |-> @.ops + 1]]
                                                 ELSE [keys EXCEPT !.proc[c] = [pc |-> "haveKey", op |-> op, key |-> keys.cachedKey, plaintext |-> plaintext, encrypted |-> encrypted, ops |-> @.ops + 1]]

\* encryptData is called (32-37)
encryptData_call(c) == /\ keys.proc[c].pc = "idle"
                       /\ keys.proc[c].ops < MaxOps
                       /\ \E plaintext \in Plaintexts : keys' = getEncryptionKey(c, "encrypt", plaintext, NoCiphertext)
                       /\ UNCHANGED <<apiKey, encryptionLib, ext, auditView, att, script, pc, req, serverVars, clientVars>>

\* decryptData is called on the output of an earlier encryptData (75-80)
decryptData_call(c) == /\ keys.proc[c].pc = "idle"
                       /\ keys.proc[c].ops < MaxOps
                       /\ \E p \in keys.produced : keys' = getEncryptionKey(c, "decrypt", p.plaintext, p.encrypted)
                       /\ UNCHANGED <<apiKey, encryptionLib, ext, auditView, att, script, pc, req, serverVars, clientVars>>

\* generateKey resolves: cachedKey is assigned and returned (20-26)
getEncryptionKey_then(c) == /\ keys.proc[c].pc = "generating"
                            /\ keys' = [keys EXCEPT !.cachedKey = keys.generated + 1, !.generated = @ + 1, !.proc[c].key = keys.generated + 1, !.proc[c].pc = "haveKey"]
                            /\ UNCHANGED <<apiKey, encryptionLib, ext, auditView, att, script, pc, req, serverVars, clientVars>>

\* encryptData with its key (38-65)
encryptData_return(c) == /\ keys.proc[c].pc = "haveKey"
                         /\ keys.proc[c].op = "encrypt"
                         /\ keys' = [keys EXCEPT !.produced = @ \cup {[plaintext |-> keys.proc[c].plaintext, encrypted |-> aesGcmEncryptWith(keys.proc[c].key, keys.proc[c].plaintext)]}, !.proc[c].pc = "idle"]
                         /\ UNCHANGED <<apiKey, encryptionLib, ext, auditView, att, script, pc, req, serverVars, clientVars>>

\* decryptData with its key (81-98): the text, or the throw of the catch
decryptData_return(c) == /\ keys.proc[c].pc = "haveKey"
                         /\ keys.proc[c].op = "decrypt"
                         /\ keys' = [keys EXCEPT !.opened = @ \cup {[plaintext |-> keys.proc[c].plaintext, result |-> aesGcmDecryptWith(keys.proc[c].key, keys.proc[c].encrypted)]}, !.proc[c].pc = "idle"]
                         /\ UNCHANGED <<apiKey, encryptionLib, ext, auditView, att, script, pc, req, serverVars, clientVars>>

(***************************************************************************)
(* Keyword panel (ChatInterface.tsx 657-735)                               *)
(***************************************************************************)
\* the list of suggested keywords is followed up to MaxSuggested entries
MaxSuggested == 4

\* what the user types into the custom keyword field
CustomKeywords == {K_b12, <<" ", "i", "r", "o", "n">>}

\* the checkbox of a suggested keyword is clicked (onChange, 677-683)
keyword_onChange == /\ panelVisible
                    /\ \E i \in 1..Len(chat.suggestedKeywords) :
                         LET keyword == chat.suggestedKeywords[i]
                             checked == ~(keyword \in Range(chat.selectedKeywords))
                         IN chat' = [chat EXCEPT !.selectedKeywords = IF checked THEN Append(@, keyword) ELSE SelectSeq(@, LAMBDA k : k # keyword)]
                    /\ UNCHANGED <<fixedVars, pc, req, serverVars, home, call>>

\* the custom keyword field is edited (onChange, 691)
setCustomKeyword == /\ panelVisible
                    /\ \E text \in CustomKeywords : /\ text # chat.customKeyword
                                                    /\ chat' = [chat EXCEPT !.customKeyword = text]
                    /\ UNCHANGED <<fixedVars, pc, req, serverVars, home, call>>

\* a custom keyword is added, by Enter in the field (onKeyPress, 699-708) or by the Add
\* button (onClick, 711-717): Enter clears the field also when the keyword is already
\* selected, the button then does nothing
addCustomKeyword == /\ panelVisible
                    /\ Len(trim(chat.customKeyword)) > 0
                    /\ \E enter \in BOOLEAN :
                         IF trim(chat.customKeyword) \in Range(chat.selectedKeywords)
                         THEN /\ enter
                              /\ chat' = [chat EXCEPT !.customKeyword = <<>>]
                         ELSE /\ Len(chat.suggestedKeywords) < MaxSuggested
                              /\ chat' = [chat EXCEPT !.suggestedKeywords = Append(@, trim(chat.customKeyword)), !.selectedKeywords = Append(@, trim(chat.customKeyword)), !.customKeyword = <<>>]
                    /\ UNCHANGED <<fixedVars, pc, req, serverVars, home, call>>

(***************************************************************************)
(* test-local.sh                                                           *)
(***************************************************************************)
\* the script before its first check (16-17: PASSED=0, FAILED=0).  errexitOnArithmetic:
\* whether the shell that runs the script applies set -e (line 4) to a (( )) command
\* that evaluates to 0, which is a property of the shell and its version
NoScript == [pc |-> "python", errexitOnArithmetic |-> TRUE, PASSED |-> 0, FAILED |-> 0, lines |-> <<>>, performed |-> <<>>, summary |-> FALSE]

\* the endpoint checks of a running backend, in order (63-73), and what follows each
EndpointChecks == <<"root", "status", "attestation", "audit">>

afterEndpoint(name) == CASE name = "root" -> "status"
                         [] name = "status" -> "attestation"
                         [] name = "attestation" -> "audit"
                         [] name = "audit" -> "frontend"

\* test_result (19-27): prints the line of the check, then ((PASSED++)) or ((FAILED++)).
\* A post-increment evaluates to the old value, so the command has status 1 when the
\* counter was 0; it is the last command of the function and set -e is in force
test_result(s, code, next) == LET old == IF code = 0 THEN s.PASSED ELSE s.FAILED
                                  printed == [s EXCEPT !.lines = Append(@, IF code = 0 THEN "pass" ELSE "fail")]
                                  counted == IF code = 0 THEN [printed EXCEPT !.PASSED = @ + 1] ELSE [printed EXCEPT !.FAILED = @ + 1]
                              IN [counted EXCEPT !.pc = IF old = 0 /\ s.errexitOnArithmetic THEN "exited" ELSE next]

\* what a command of the script can meet: a version command or a file test succeeds or
\* fails; a curl gets an answer, gets an answer with an error status, or gets none
CommandResults == {"ok", "failed"}

CurlResults == {"ok", "http_error", "failed"}

\* the exit status of the command: curl is called with -s and without -f (59, 63-72, 83),
\* so any answer of the server, whatever its status, is status 0
succeeded(result) == result # "failed"

\* a check written as a plain command followed by test_result $? (33-34, 37-38, 63-73):
\* under set -e a failing command ends the script before test_result is called
plainCheck(s, name, result, next) == IF succeeded(result) THEN test_result([s EXCEPT !.performed = Append(@, [check |-> name, result |-> result])], 0, next)
                                     ELSE [s EXCEPT !.performed = Append(@, [check |-> name, result |-> result]), !.pc = "exited"]

\* a check written as the condition of an if (41-52, 59-61, 74-76, 83-87)
ifCheck(s, name, result, next, nextFailed) == test_result([s EXCEPT !.performed = Append(@, [check |-> name, result |-> result])], IF succeeded(result) THEN 0 ELSE 1, IF succeeded(result) THEN next ELSE nextFailed)

\* python3 --version (33-34)
checkPython == /\ script.pc = "python"
               /\ \E result \in CommandResults : script' = plainCheck(script, "python", result, "node")
               /\ UNCHANGED <<apiKey, encryptionLib, ext, auditView, att, keys, pc, req, serverVars, clientVars>>

\* node --version (37-38)
checkNode == /\ script.pc = "node"
             /\ \E result \in CommandResults : script' = plainCheck(script, "node", result, "venv")
             /\ UNCHANGED <<apiKey, encryptionLib, ext, auditView, att, keys, pc, req, serverVars, clientVars>>

\* [ -f backend/venv/bin/python ] (41-45)
checkVenv == /\ script.pc = "venv"
             /\ \E result \in CommandResults : script' = ifCheck(script, "venv", result, "node_modules", "node_modules")
             /\ UNCHANGED <<apiKey, encryptionLib, ext, auditView, att, keys, pc, req, serverVars, clientVars>>

\* [ -d frontend/node_modules ] (48-52)
checkNodeModules == /\ script.pc = "node_modules"
                    /\ \E result \in CommandResults : script' = ifCheck(script, "node_modules", result, "backend", "backend")
                    /\ UNCHANGED <<apiKey, encryptionLib, ext, auditView, att, keys, pc, req, serverVars, clientVars>>

\* curl of /health (59-61, 74-76): the endpoint checks run only when it succeeds
checkBackend == /\ script.pc = "backend"
                /\ \E result \in CurlResults : script' = ifCheck(script, "backend", result, "root", "frontend")
                /\ UNCHANGED <<apiKey, encryptionLib, ext, auditView, att, keys, pc, req, serverVars, clientVars>>

\* curl of one endpoint of the backend (63-73)
checkEndpoint == /\ script.pc \in Range(EndpointChecks)
                 /\ \E result \in CurlResults : script' = plainCheck(script, script.pc, result, afterEndpoint(script.pc))
                 /\ UNCHANGED <<apiKey, encryptionLib, ext, auditView, att, keys, pc, req, serverVars, clientVars>>

\* curl of the frontend (83-87)
checkFrontend == /\ script.pc = "frontend"
                 /\ \E result \in CurlResults : script' = ifCheck(script, "frontend", result, "results", "results")
                 /\ UNCHANGED <<apiKey, encryptionLib, ext, auditView, att, keys, pc, req, serverVars, clientVars>>

\* the "Test Results" summary (90-113)
printResults == /\ script.pc = "results"
                /\ script' = [script EXCEPT !.summary = TRUE, !.pc = "done"]
                /\ UNCHANGED <<apiKey, encryptionLib, ext, auditView, att, keys, pc, req, serverVars, clientVars>>

(***************************************************************************)
(* Specification                                                           *)
(***************************************************************************)
\* the chat after a document was analysed: the panel shows the suggested keywords
AnalysedChat == [InitChat EXCEPT !.uploadedPdf = ThePdf(Pdf_cbc), !.analysisComplete = TRUE, !.suggestedKeywords = <<K_anemia, K_b12>>, !.selectedKeywords = <<K_anemia, K_b12>>, !.messages = <<Message("assistant", <<"**INITIAL ANALYSIS**\n\n">> \o A_three, FALSE)>>]

Init == /\ apiKey \in BOOLEAN
        /\ home \in {InitHome, NoHome}
        /\ encryptionLib \in IF home.mounted THEN EncryptionLibs ELSE {"placeholder"}
        /\ ext = NoExt
        /\ auditView = NoAuditView
        /\ script = NoScript
        /\ keys = NoKeys
        /\ att = NoAtt
        /\ pc = [r \in AllReqs |-> "idle"]
        /\ req = [r \in AllReqs |-> NoReq]
        /\ srv = [r \in AllReqs |-> InitSrv]
        /\ resp = [r \in AllReqs |-> NoResp]
        /\ calls = [r \in AllReqs |-> <<>>]
        /\ searchLog = [r \in AllReqs |-> <<>>]
        /\ auditLog = <<>>
        /\ chat \in IF home.mounted THEN {InitChat, AnalysedChat} ELSE {InitChat}
        /\ call = [r \in AllReqs |-> NoCall]

ServerStep(r) == \/ POST(r)
                 \/ Stage1Return(r)
                 \/ getPubMedContext_search(r)
                 \/ getPubMedContext_fetch(r)
                 \/ FinalReturn(r)
                 \/ AuditReturn(r)

ClientStep(r) == \/ handleSubmit(r)
                 \/ handleSubmit_then(r)
                 \/ analyzeDocument(r)
                 \/ analyzeDocument_then(r)
                 \/ handleSearchLiterature(r)
                 \/ handleSearchLiterature_then(r)
                 \/ handleSearchLiterature_synthesis(r)
                 \/ DirectRequest(r)

Next == \/ onToggle
        \/ setInput
        \/ handlePdfUpload
        \/ handlePdfUpload_failed
        \/ \E r \in Reqs : ServerStep(r)
        \/ \E r \in Reqs : ClientStep(r)

Spec == Init /\ [][Next]_vars

\* extractSearchKeywords is called with a document, or null, and a question
ExtractInit == /\ apiKey = TRUE
               /\ encryptionLib = "placeholder"
               /\ ext \in {[NoExt EXCEPT !.pc = "start", !.hasPdf = x[1], !.pdfText = IF x[1] THEN x[2] ELSE <<>>, !.userQuestion = x[3]] : x \in ExtractInputs}
               /\ auditView = NoAuditView
               /\ script = NoScript
               /\ keys = NoKeys
               /\ att = NoAtt
               /\ pc = [r \in AllReqs |-> "idle"]
               /\ req = [r \in AllReqs |-> NoReq]
               /\ srv = [r \in AllReqs |-> InitSrv]
               /\ resp = [r \in AllReqs |-> NoResp]
               /\ calls = [r \in AllReqs |-> <<>>]
               /\ searchLog = [r \in AllReqs |-> <<>>]
               /\ auditLog = <<>>
               /\ home = NoHome
               /\ chat = InitChat
               /\ call = [r \in AllReqs |-> NoCall]

ExtractNext == \/ extractSearchKeywords_pdfConcepts
               \/ extractSearchKeywords_questionKeywords
               \/ extractSearchKeywords_return

ExtractSpec == ExtractInit /\ [][ExtractNext]_vars

\* the Audit Log tab is opened after queries have completed and been logged
AuditViewInit == /\ apiKey = TRUE
                 /\ home = InitHome
                 /\ encryptionLib = "placeholder"
                 /\ ext = NoExt
                 /\ auditView \in {[NoAuditView EXCEPT !.pc = "idle", !.logFile = f] : f \in UNION {[1..n -> LoggedEntries] : n \in 0..MaxLogged}}
                 /\ script = NoScript
                 /\ keys = NoKeys
                 /\ att = NoAtt
                 /\ pc = [r \in AllReqs |-> "idle"]
                 /\ req = [r \in AllReqs |-> NoReq]
                 /\ srv = [r \in AllReqs |-> InitSrv]
                 /\ resp = [r \in AllReqs |-> NoResp]
                 /\ calls = [r \in AllReqs |-> <<>>]
                 /\ searchLog = [r \in AllReqs |-> <<>>]
                 /\ auditLog = <<>>
                 /\ chat = InitChat
                 /\ call = [r \in AllReqs |-> NoCall]

AuditViewNext == fetchLogs \/ GET \/ fetchLogs_then

AuditViewSpec == AuditViewInit /\ [][AuditViewNext]_vars

\* the TEE Attestation tab and other clients call the endpoint, with and without the key
AttestationInit == /\ apiKey \in BOOLEAN
                   /\ encryptionLib = "placeholder"
                   /\ ext = NoExt
                   /\ auditView = NoAuditView
                   /\ script = NoScript
                   /\ keys = NoKeys
                   /\ att = NoAtt
                   /\ pc = [r \in AllReqs |-> "idle"]
                   /\ req = [r \in AllReqs |-> NoReq]
                   /\ srv = [r \in AllReqs |-> InitSrv]
                   /\ resp = [r \in AllReqs |-> NoResp]
                   /\ calls = [r \in AllReqs |-> <<>>]
                   /\ searchLog = [r \in AllReqs |-> <<>>]
                   /\ auditLog = <<>>
                   /\ home = NoHome
                   /\ chat = InitChat
                   /\ call = [r \in AllReqs |-> NoCall]

AttestationNext == attestation_GET \/ attestation_GET_then

AttestationSpec == AttestationInit /\ [][AttestationNext]_vars

\* one page with the Web Crypto definitions bound; its handlers call encryptData and
\* decryptData, and a call may start while another awaits
KeyInit == /\ apiKey = TRUE
           /\ encryptionLib = "webcrypto"
           /\ ext = NoExt
           /\ auditView = NoAuditView
           /\ script = NoScript
           /\ att = NoAtt
           /\ keys = NoKeys
           /\ pc = [r \in AllReqs |-> "idle"]
           /\ req = [r \in AllReqs |-> NoReq]
           /\ srv = [r \in AllReqs |-> InitSrv]
           /\ resp = [r \in AllReqs |-> NoResp]
           /\ calls = [r \in AllReqs |-> <<>>]
           /\ searchLog = [r \in AllReqs |-> <<>>]
           /\ auditLog = <<>>
           /\ home = NoHome
           /\ chat = InitChat
           /\ call = [r \in AllReqs |-> NoCall]

KeyStep(c) == \/ encryptData_call(c)
              \/ decryptData_call(c)
              \/ getEncryptionKey_then(c)
              \/ encryptData_return(c)
              \/ decryptData_return(c)

KeyNext == \E c \in Callers : KeyStep(c)

KeySpec == KeyInit /\ [][KeyNext]_vars

\* one page open in a browser: a document was chosen and its text is being extracted
\* (handlePdfUpload awaits, isLoading is still false), and a typed question was then
\* submitted; the extraction returns while the question is under way
ChatInit == /\ apiKey = TRUE
            /\ encryptionLib = "placeholder"
            /\ ext = NoExt
            /\ auditView = NoAuditView
            /\ script = NoScript
            /\ keys = NoKeys
            /\ att = NoAtt
            /\ pc = [r \in AllReqs |-> IF r = "r2" THEN "posted" ELSE "idle"]
            /\ \E text \in TypedInputs :
                  /\ req = [r \in AllReqs |-> IF r = "r2" THEN requestBody(r, text, EmptyMetadata, FALSE) ELSE NoReq]
                  /\ chat = [InitChat EXCEPT !.pdfUploading = TRUE, !.messages = <<Message("user", text, FALSE)>>, !.isLoading = TRUE, !.progressMessage = "Processing your query..."]
                  /\ call = [r \in AllReqs |-> IF r = "r2" THEN [NoCall EXCEPT !.op = "submit", !.plaintext = text] ELSE NoCall]
            /\ srv = [r \in AllReqs |-> InitSrv]
            /\ resp = [r \in AllReqs |-> NoResp]
            /\ calls = [r \in AllReqs |-> <<>>]
            /\ searchLog = [r \in AllReqs |-> <<>>]
            /\ auditLog = <<>>
            /\ home = InitHome

ChatNext == \/ handlePdfUpload_failed
            \/ analyzeDocument("r1")
            \/ analyzeDocument_then("r1")
            \/ handleSubmit_then("r2")
            \/ \E r \in AllReqs : ServerStep(r)

ChatSpec == ChatInit /\ [][ChatNext]_vars

\* a continuation whose promise has resolved is run by the event loop, and the timer of
\* the 500 ms pause fires
ChatFairness == \A r \in Reqs :
                   /\ WF_vars(handleSubmit_then(r))
                   /\ WF_vars(analyzeDocument_then(r))
                   /\ WF_vars(handleSearchLiterature_then(r))
                   /\ WF_vars(handleSearchLiterature_synthesis(r))

\* the page is open with the key configured and the Web Crypto definitions bound
LiveInit == Init /\ apiKey = TRUE /\ home.mounted /\ encryptionLib = "webcrypto"

\* the requests followed to their end search at most MaxLiveKeywords keywords
MaxLiveKeywords == 1

LiveNext == Next /\ \A r \in AllReqs : Len(srv'[r].keywordList) <= MaxLiveKeywords

LiveSpec == LiveInit /\ [][LiveNext]_vars /\ ChatFairness

\* the analysis of an uploaded document has been answered: the response is on its way to
\* analyzeDocument, with the keywords of a stage-1 answer of either kind
PanelInit == /\ apiKey = TRUE
             /\ encryptionLib = "placeholder"
             /\ ext = NoExt
             /\ auditView = NoAuditView
             /\ script = NoScript
             /\ keys = NoKeys
             /\ att = NoAtt
             /\ pc = [r \in AllReqs |-> IF r = "r1" THEN "responded" ELSE "idle"]
             /\ req = [r \in AllReqs |-> IF r = "r1" THEN requestBody(r, analysisQuery(Pdf_cbc), EmptyMetadata, TRUE) ELSE NoReq]
             /\ \E ans \in {a \in Stage1Answers : a.kind = "http"} : \E final \in {C_short, C_long} :
                   LET s == [afterStage1(InitSrv, ans, stage1Keywords(ans, analysisQuery(Pdf_cbc))) EXCEPT !.data = final]
                   IN /\ srv = [r \in AllReqs |-> IF r = "r1" THEN s ELSE InitSrv]
                      /\ resp = [r \in AllReqs |-> IF r = "r1" THEN successResponse(r, s) ELSE NoResp]
             /\ calls = [r \in AllReqs |-> <<>>]
             /\ searchLog = [r \in AllReqs |-> <<>>]
             /\ auditLog = <<>>
             /\ home = InitHome
             /\ chat = [InitChat EXCEPT !.uploadedPdf = ThePdf(Pdf_cbc), !.pdfUploading = TRUE, !.isLoading = TRUE, !.progressMessage = "Analyzing medical report..."]
             /\ call = [r \in AllReqs |-> IF r = "r1" THEN [NoCall EXCEPT !.op = "analyze", !.plaintext = analysisQuery(Pdf_cbc)] ELSE NoCall]

PanelNext == \/ analyzeDocument_then("r1")
             \/ keyword_onChange
             \/ setCustomKeyword
             \/ addCustomKeyword

PanelSpec == PanelInit /\ [][PanelNext]_vars

\* test-local.sh is started, by a shell of either kind
ScriptInit == /\ apiKey = TRUE
              /\ encryptionLib = "placeholder"
              /\ ext = NoExt
              /\ auditView = NoAuditView
              /\ att = NoAtt
              /\ keys = NoKeys
              /\ \E e \in BOOLEAN : script = [NoScript EXCEPT !.errexitOnArithmetic = e]
              /\ pc = [r \in AllReqs |-> "idle"]
              /\ req = [r \in AllReqs |-> NoReq]
              /\ srv = [r \in AllReqs |-> InitSrv]
              /\ resp = [r \in AllReqs |-> NoResp]
              /\ calls = [r \in AllReqs |-> <<>>]
              /\ searchLog = [r \in AllReqs |-> <<>>]
              /\ auditLog = <<>>
              /\ home = InitHome
              /\ chat = InitChat
              /\ call = [r \in AllReqs |-> NoCall]

ScriptNext == \/ checkPython
              \/ checkNode
              \/ checkVenv
              \/ checkNodeModules
              \/ checkBackend
              \/ checkEndpoint
              \/ checkFrontend
              \/ printResults

ScriptSpec == ScriptInit /\ [][ScriptNext]_vars

\* the answer of the stage-1 call of the request in retrieval
Stage1Failed == [kind |-> "http", status |-> 503, content |-> E_body]

\* two requests in flight, posted by HTTP clients: r1 has just been posted, r2 has had its
\* stage-1 call answered 503 and is searching its keyword
ConcurrentInit == /\ apiKey = TRUE
                  /\ home = NoHome
                  /\ encryptionLib = "placeholder"
                  /\ ext = NoExt
                  /\ auditView = NoAuditView
                  /\ script = NoScript
                  /\ keys = NoKeys
                  /\ att = NoAtt
                  /\ pc = [r \in AllReqs |-> IF r = "r1" THEN "posted" ELSE "esearch"]
                  /\ \E body \in {b \in DirectBodies("r1") : b.encrypted_query = Q_chest /\ b.encryption_metadata.defined} : req = [r \in AllReqs |-> IF r = "r1" THEN body ELSE [encrypted_query |-> Q_chest, encryption_metadata |-> EmptyMetadata, session_id |-> session_id(r), search_literature |-> TRUE]]
                  /\ srv = [r \in AllReqs |-> IF r = "r1" THEN InitSrv ELSE continueSearch(r, afterStage1(InitSrv, Stage1Failed, stage1Keywords(Stage1Failed, Q_chest)), 1).srv]
                  /\ resp = [r \in AllReqs |-> NoResp]
                  /\ calls = [r \in AllReqs |-> IF r = "r1" THEN <<>> ELSE <<CallLLM("stage1"), CallPubMed("esearch", srv[r].keywordList[1])>>]
                  /\ searchLog = [r \in AllReqs |-> <<>>]
                  /\ auditLog = <<>>
                  /\ chat = InitChat
                  /\ call = [r \in AllReqs |-> [NoCall EXCEPT !.op = "direct"]]

ConcurrentNext == \E r \in AllReqs : ServerStep(r)

ConcurrentSpec == ConcurrentInit /\ [][ConcurrentNext]_vars

(***************************************************************************)
(* Properties                                                              *)
(***************************************************************************)
clientOps == {"submit", "analyze", "search"}

\* the entries of the audit log written for request r
entriesOf(r) == {i \in 1..Len(auditLog) : auditLog[i].user_id = session_id(r)}

\* the kinds of the outbound calls request r has issued
issued(r) == {calls[r][i].kind : i \in 1..Len(calls[r])}

IsPrefix(p, t) == Len(p) <= Len(t) /\ p = SubSeq(t, 1, Len(p))

RECURSIVE articlesOf(_)
articlesOf(log) == IF Len(log) = 0 THEN <<>> ELSE log[1].articles \o articlesOf(Tail(log))

\* the first occurrence of every identifier, in order
distinctByPmid(as) == LET keep == {i \in 1..Len(as) : \A j \in 1..(i - 1) : as[j].pmid # as[i].pmid}
                          nth(n) == CHOOSE i \in keep : Cardinality({j \in keep : j < i}) = n - 1
                      IN [n \in 1..Cardinality(keep) |-> as[nth(n)]]

lastMessage == chat.messages[Len(chat.messages)]

\* C1: a request made while the API key is not configured is answered with the 401 error
\* response, and no outbound call is issued for it: no LLM call, no literature search,
\* no audit write
C1_NoKeyNoCall == \A r \in AllReqs : ~apiKey => /\ calls[r] = <<>>
                                                /\ searchLog[r] = <<>>
                                                /\ auditLog = <<>>
                                                /\ pc[r] \in {"idle", "posted", "responded", "closed"}
                                                /\ pc[r] \in {"responded", "closed"} => (resp[r].status = 401 /\ resp[r].kind = "error")

C1_Witness == \E r \in AllReqs : ~apiKey /\ pc[r] = "responded" /\ req[r].search_literature /\ resp[r].status = 401

\* C2: when the success response is returned, exactly one audit entry of the request is
\* in the audit log, also when the audit write failed or was rejected
C2_OneEntryPerCompletedQuery == \A r \in AllReqs : resp[r].kind = "success" => Cardinality(entriesOf(r)) = 1

\* C3: the list of keywords searched has at most 4 entries, whether it comes from the
\* stage-1 answer or from the fallback extraction
C3_AtMostFourKeywords == \A r \in AllReqs : Len(srv[r].keywordList) <= 4 /\ Cardinality({i \in 1..Len(calls[r]) : calls[r][i].kind = "esearch"}) <= 4

\* C4: the cited articles of a response have pairwise distinct identifiers and are at most 5
C4_CitedDistinctAtMostFive == \A r \in AllReqs : \A cited \in {srv[r].citedArticles, resp[r].cited_articles} :
                                   /\ Len(cited) <= 5
                                   /\ \A i, j \in 1..Len(cited) : cited[i].pmid = cited[j].pmid => i = j

C4_Witness == \E r \in AllReqs : /\ resp[r].kind = "success"
                                 /\ Len(resp[r].cited_articles) = 5
                                 /\ Len(distinctByPmid(articlesOf(searchLog[r]))) > 5
                                 /\ Len(articlesOf(searchLog[r])) > Len(distinctByPmid(articlesOf(searchLog[r])))

\* C5: a keyword whose search or fetch failed contributes no article, every keyword of the
\* list is still searched, the request goes on to the final call, and the cited articles
\* are the articles of the successful searches, without repetition and cut to 5
C5_FailedSearchSkipped == \A r \in AllReqs :
                               /\ Len(searchLog[r]) <= Len(srv[r].keywordList)
                               /\ \A i \in 1..Len(searchLog[r]) : /\ searchLog[r][i].keyword = srv[r].keywordList[i]
                                                                  /\ ~searchLog[r][i].ok => searchLog[r][i].articles = <<>>
                               /\ ("esearch" \in issued(r) /\ pc[r] \notin {"esearch", "efetch"}) => "final" \in issued(r)
                               /\ "final" \in issued(r) => /\ Len(searchLog[r]) = Len(srv[r].keywordList)
                                                           /\ srv[r].citedArticles = SubSeq(distinctByPmid(articlesOf(SelectSeq(searchLog[r], LAMBDA e : e.ok))), 1, Min(5, Len(distinctByPmid(articlesOf(SelectSeq(searchLog[r], LAMBDA e : e.ok))))))
                               /\ resp[r].kind = "success" => resp[r].cited_articles = srv[r].citedArticles

C5_Witness == \E r \in AllReqs : /\ resp[r].kind = "success"
                                 /\ Len(searchLog[r]) = 3
                                 /\ ~searchLog[r][1].ok
                                 /\ searchLog[r][2].ok /\ searchLog[r][3].ok
                                 /\ Len(resp[r].cited_articles) = 3

\* C6: when the final call answers with a non-success status, the response is an error
\* response whose status is the upstream status and whose body carries the upstream
\* status and the upstream body
C6_UpstreamErrorPropagated == \A r \in AllReqs : (srv[r].nilaiResponse.status # 0 /\ (srv[r].nilaiResponse.status < 200 \/ srv[r].nilaiResponse.status > 299)) =>
                                   /\ resp[r].kind = "error"
                                   /\ resp[r].status = srv[r].nilaiResponse.status
                                   /\ resp[r].upstream_status = srv[r].nilaiResponse.status
                                   /\ resp[r].details = srv[r].nilaiResponse.body
                                   /\ entriesOf(r) = {}

C6_Witness == \E r \in AllReqs : srv[r].nilaiResponse.status = 503 /\ resp[r].status = 503 /\ resp[r].details = E_body /\ req[r].search_literature

\* C7: an audit entry holds, of the query, its first 100 characters at most, and of the
\* response, its length only
C7_AuditEntryBounded == \A i \in 1..Len(auditLog) :
                             /\ DOMAIN auditLog[i] = {"event_type", "user_id", "query_preview", "encryption_enabled", "model", "tee_verified", "response_length"}
                             /\ auditLog[i].event_type = "medical_query"
                             /\ auditLog[i].model = "google/gemma-3-27b-it"
                             /\ auditLog[i].tee_verified = TRUE
                             /\ auditLog[i].encryption_enabled \in BOOLEAN
                             /\ Len(auditLog[i].query_preview) <= 100
                             /\ \E r \in AllReqs : /\ auditLog[i].user_id = session_id(r)
                                                   /\ IsPrefix(auditLog[i].query_preview, req[r].encrypted_query)
                                                   /\ Len(auditLog[i].query_preview) = Min(100, Len(req[r].encrypted_query))
                                                   /\ auditLog[i].response_length = Len(srv[r].data)

C7_Witness == \E i \in 1..Len(auditLog) : \E r \in AllReqs : /\ auditLog[i].user_id = session_id(r)
                                                             /\ Len(req[r].encrypted_query) > 100
                                                             /\ Len(auditLog[i].query_preview) = 100
                                                             /\ auditLog[i].response_length = Len(C_long)

\* C8: no audit entry holds plaintext of what the user asked, with encryption enabled
\* or disabled
C8_NoPlaintextInAudit == \A r \in AllReqs : \A i \in entriesOf(r) : call[r].op \in clientOps => (auditLog[i].query_preview = <<>> \/ ~IsPrefix(auditLog[i].query_preview, call[r].plaintext))

\* C9: with encryption enabled, the query in the request body is not the plaintext, for
\* the typed question, the document analysis and the literature search
C9_ServerReceivesCiphertext == \A r \in AllReqs : (call[r].op \in clientOps /\ call[r].enc) => req[r].encrypted_query # call[r].plaintext

mentions(text, word) == \E i \in 1..(Len(text) - Len(word) + 1) : \A k \in 1..Len(word) : LowerChar(text[i + k - 1]) = word[k]

\* C11: for a document that mentions hemoglobin or hgb, and low, and mcv, and high, the
\* concepts extracted from it contain "anemia" and "macrocytic anemia", and so do the
\* keywords of the result
C11_MacrocyticAnemia == (/\ ext.pc \in {"question", "combine", "done"}
                         /\ ext.hasPdf
                         /\ mentions(ext.pdfText, (<<"h","e","m","o","g","l","o","b","i","n">>)) \/ mentions(ext.pdfText, (<<"h","g","b">>))
                         /\ mentions(ext.pdfText, s_low)
                         /\ mentions(ext.pdfText, s_mcv)
                         /\ mentions(ext.pdfText, s_high)) =>
                            /\ {s_anemia, (<<"m","a","c","r","o","c","y","t","i","c"," ","a","n","e","m","i","a">>)} \subseteq Range(ext.pdfConcepts)
                            /\ ext.pc = "done" => {s_anemia, (<<"m","a","c","r","o","c","y","t","i","c"," ","a","n","e","m","i","a">>)} \subseteq Range(ext.result.keywords)

C11_Witness == /\ ext.pc = "done"
               /\ ext.hasPdf
               /\ mentions(ext.pdfText, (<<"h","g","b">>)) /\ mentions(ext.pdfText, s_low) /\ mentions(ext.pdfText, s_mcv) /\ mentions(ext.pdfText, s_high)
               /\ {s_anemia, (<<"m","a","c","r","o","c","y","t","i","c"," ","a","n","e","m","i","a">>)} \subseteq Range(ext.pdfConcepts)

\* C12: a query of the chat interface whose request is answered with the success response
\* ends with the answer displayed and without a decryption error, with encryption
\* disabled and enabled
C12_SuccessfulQueryDisplayed == \A r \in AllReqs : (call[r].op \in clientOps /\ pc[r] = "closed" /\ resp[r].kind = "success") =>
                                     /\ chat.error # "Failed to decrypt data"
                                     /\ call[r].op = "submit" => lastMessage = Message("assistant", srv[r].data, call[r].enc)
                                     /\ call[r].op = "search" => lastMessage = Message("assistant", <<"**RESEARCH-BACKED RECOMMENDATIONS**\n\n">> \o srv[r].data, call[r].enc)

\* C13: within a request the stage-1 call comes before every literature call, every
\* literature call before the final call, the audit write after a final call that was
\* answered with a success status, and the success response after the audit write; a
\* request answered with an error has made no audit write
C13_StagesInOrder == \A r \in AllReqs :
                          /\ \A i, j \in 1..Len(calls[r]) :
                                /\ (calls[r][j].kind \in {"esearch", "efetch"}) => \E k \in 1..(j - 1) : calls[r][k].kind = "stage1"
                                /\ (calls[r][i].kind = "final" /\ calls[r][j].kind \in {"stage1", "esearch", "efetch"}) => j < i
                                /\ (calls[r][i].kind = "audit" /\ calls[r][j].kind # "audit") => j < i
                          /\ Len(srv[r].keywordList) > 0 => "stage1" \in issued(r)
                          /\ "audit" \in issued(r) => ("final" \in issued(r) /\ srv[r].nilaiResponse.status \in 200..299)
                          /\ resp[r].kind = "success" => ("audit" \in issued(r) /\ pc[r] \notin {"posted", "stage1", "esearch", "efetch", "final", "audit"})
                          /\ pc[r] = "audit" => resp[r].kind = "none"
                          /\ resp[r].kind = "error" => ("audit" \notin issued(r) /\ entriesOf(r) = {})

C13_Witness == \E r \in AllReqs : /\ resp[r].kind = "success"
                                  /\ {"stage1", "esearch", "efetch", "final", "audit"} \subseteq issued(r)
                                  /\ entriesOf(r) # {}

\* the calls of one kind a request has issued, in order
callsOf(r, kind) == SelectSeq(calls[r], LAMBDA c : c.kind = kind)

\* C14: a request issues the stage-1 call, the final call and the audit write at most once
\* each, one search for each keyword of its list in the order of the list, and at most
\* one fetch after each search, whatever the calls answered
C14_NoRetry == \A r \in AllReqs :
                    /\ Len(callsOf(r, "stage1")) <= 1
                    /\ Len(callsOf(r, "final")) <= 1
                    /\ Len(callsOf(r, "audit")) <= 1
                    /\ Len(callsOf(r, "esearch")) <= Len(srv[r].keywordList)
                    /\ \A i \in 1..Len(callsOf(r, "esearch")) : callsOf(r, "esearch")[i].keyword = srv[r].keywordList[i]
                    /\ \A i \in 1..Len(calls[r]) : calls[r][i].kind = "efetch" => (i > 1 /\ calls[r][i - 1].kind = "esearch" /\ calls[r][i - 1].keyword = calls[r][i].keyword)

C14_Witness == \E r \in AllReqs : /\ Len(searchLog[r]) >= 2
                                  /\ ~searchLog[r][1].ok
                                  /\ Len(callsOf(r, "esearch")) = Len(srv[r].keywordList)
                                  /\ Len(callsOf(r, "efetch")) >= 1
                                  /\ resp[r].kind = "error"
                                  /\ resp[r].status = 503

\* the articles of the successful searches of a log, without repetition and cut to 5
citedFrom(log) == SubSeq(distinctByPmid(articlesOf(SelectSeq(log, LAMBDA e : e.ok))), 1, Min(5, Len(distinctByPmid(articlesOf(SelectSeq(log, LAMBDA e : e.ok))))))

\* C15: with two requests in flight, the keywords, the cited articles, the status and the
\* response text of a request follow from its own body and the answers to its own calls,
\* a step of one request changes nothing of the other, and the keyword list of a request
\* stays what it was after stage 1
C15_RequestsIsolated == /\ [](\A r \in AllReqs :
                                 /\ (pc[r] = "esearch" /\ Len(calls[r]) = 2) => srv[r].keywordList = keywordArrayOf(keywordsOfMatch(IF Len(srv[r].initialAnalysis) > 0 THEN keywordMatch(srv[r].initialAnalysis) ELSE [found |-> FALSE, group |-> <<>>], req[r].encrypted_query))
                                 /\ \A i \in 1..Len(searchLog[r]) : /\ searchLog[r][i].keyword = srv[r].keywordList[i]
                                                                    /\ searchLog[r][i].articles \in {<<>>, parseArticlesFromXML(Records(IdList(i)))}
                                 /\ Len(srv[r].articleMap) <= Len(articlesOf(searchLog[r])) + PerKeyword
                                 /\ "final" \in issued(r) => srv[r].citedArticles = citedFrom(searchLog[r])
                                 /\ resp[r].kind = "success" => /\ resp[r].status = 200
                                                                /\ resp[r].encrypted_response = srv[r].nilaiResponse.body
                                                                /\ resp[r].cited_articles = citedFrom(searchLog[r])
                                                                /\ resp[r].search_keywords = srv[r].extractedKeywords
                                 /\ (resp[r].kind = "error" /\ srv[r].nilaiResponse.status # 0) => resp[r].status = srv[r].nilaiResponse.status)
                        /\ [][\E r \in AllReqs : \A q \in AllReqs \ {r} : pc'[q] = pc[q] /\ req'[q] = req[q] /\ srv'[q] = srv[q] /\ resp'[q] = resp[q] /\ calls'[q] = calls[q] /\ searchLog'[q] = searchLog[q]]_vars
                        /\ [][\A r \in AllReqs : Len(srv[r].keywordList) > 0 => srv'[r].keywordList = srv[r].keywordList]_vars

C15_Witness == /\ resp["r1"].kind = "success"
               /\ resp["r2"].kind = "success"
               /\ Len(resp["r1"].cited_articles) > 0
               /\ resp["r2"].cited_articles = <<>>
               /\ Len(auditLog) = 2
               /\ auditLog[1].user_id = session_id("r2")

\* C16: once the Audit Log tab has loaded the summary, the totals it displays are the
\* counts the summary endpoint computed for the time range, and are not zero when
\* queries were logged within it
C16_SummaryTotalsShown == (auditView.pc = "shown" /\ "total_queries" \in DOMAIN auditView.summary) =>
                               /\ displayedTotal(auditView.summary, "total_events") = auditView.summary.total_queries
                               /\ displayedTotal(auditView.summary, "medical_queries") = auditView.summary.total_queries
                               /\ Len(SelectSeq(auditView.logFile, LAMBDA log : log.age <= auditView.hours)) > 0 => displayedTotal(auditView.summary, "total_events") > 0

\* the stage-1 answers that name no keywords: the analyses without a keyword line, and
\* the empty analysis a non-success status leaves
NoKeywordLine == {a \in {<<>>} \cup {ans.content : ans \in {x \in Stage1Answers : x.kind = "http" /\ isOk(x.status)}} : ~keywordMatch(a).found}

\* the stage-1 call of request r has returned without naming keywords
usedFallback(r) == Len(calls[r]) >= 2 /\ calls[r][1].kind = "stage1" /\ srv[r].initialAnalysis \in NoKeywordLine

\* C17: when the stage-1 call answers with a non-success status or without a keyword
\* line, the request is not answered with an error at that point: its keywords are the
\* heuristic extraction over its query (set when the call returns and kept from then
\* on), it searches each of them, and it issues the final call
C17_FallbackKeywords == /\ [](\A r \in AllReqs : usedFallback(r) =>
                                  /\ Len(calls[r]) = 2 => srv[r].extractedKeywords = fallbackKeywords(req[r].encrypted_query)
                                  /\ srv[r].keywordList = keywordArrayOf(srv[r].extractedKeywords)
                                  /\ pc[r] \in {"esearch", "efetch"} => (resp[r].kind = "none" /\ "final" \notin issued(r))
                                  /\ pc[r] \notin {"esearch", "efetch"} => (Len(callsOf(r, "final")) = 1 /\ Len(callsOf(r, "esearch")) = Len(srv[r].keywordList)))
                        /\ [][\A r \in AllReqs : Len(calls[r]) >= 2 => (srv'[r].extractedKeywords = srv[r].extractedKeywords /\ req'[r] = req[r])]_vars

C17_Witness == \E r \in AllReqs : /\ usedFallback(r)
                                  /\ srv[r].initialAnalysis = A_none
                                  /\ Len(srv[r].keywordList) >= 1
                                  /\ Len(callsOf(r, "efetch")) >= 1
                                  /\ resp[r].kind = "success"

\* C18: the user message of the final call carries the literature context and the
\* citation instruction exactly when at least one article was retrieved; otherwise it
\* is the query of the request, unchanged
C18_ContextIffArticles == \A r \in AllReqs : "final" \in issued(r) =>
                               IF Len(srv[r].citedArticles) > 0
                               THEN /\ includes(srv[r].userContent, srv[r].literatureContext)
                                    /\ includes(srv[r].userContent, <<"\n\n---\n\nORIGINAL QUERY:\n">>)
                                    /\ includes(srv[r].userContent, req[r].encrypted_query)
                               ELSE srv[r].userContent = req[r].encrypted_query

\* C19: when no pattern matches the document or the question, every word of the
\* question the extractor selects for the search query is at least as long as every
\* word of the question it did not select
C19_LongestWordsSelected == (ext.pc = "done" /\ Len(ext.pdfConcepts) = 0 /\ Len(ext.questionKeywords) = 0) =>
                                 LET selected == Range(splitSpace(ext.result.searchQuery))
                                     others == Range(splitSpace(ext.userQuestion)) \ selected
                                 IN \A w \in selected : \A o \in others : Len(w) >= Len(o)

\* C20: for a literature search started from the keyword panel, the keywords the
\* server has searched once it issues the final call are the keywords selected in the
\* panel, the ones the chat reports as "Searched for"
C20_SelectedKeywordsSearched == \A r \in AllReqs : (call[r].op = "search" /\ "final" \in issued(r)) =>
                                     [i \in 1..Len(callsOf(r, "esearch")) |-> callsOf(r, "esearch")[i].keyword] = keywordArrayOf(call[r].searchQuery)

\* two proofs that differ at most in their identifier and their error message
sameDemoProof(p, q) == [p EXCEPT !.proof_id = "", !.error = ""] = [q EXCEPT !.proof_id = "", !.error = ""]

\* C21: the attestation endpoint always answers 200; without the API key it makes no
\* call and returns the demo proof with verification_status DEMO_MODE and an error
\* field; when the call of the attestation service fails it returns the same demo
\* proof; verification_status is VERIFIED exactly when the key is configured and the
\* call returned a report
C21_AttestationNeverFails == /\ Len(att.answers) = Len(att.proofs)
                             /\ keyMissing => att.fetches = 0
                             /\ \A i \in 1..Len(att.proofs) :
                                   /\ att.proofs[i].status = 200
                                   /\ keyMissing => (att.answers[i] = NoAnswer /\ att.proofs[i].verification_status = "DEMO_MODE" /\ att.proofs[i].error = "API key not configured")
                                   /\ ~reportObtained(att.answers[i]) => (att.proofs[i].error # "undefined" /\ \A j \in 1..Len(att.proofs) : ~reportObtained(att.answers[j]) => sameDemoProof(att.proofs[i], att.proofs[j]))
                                   /\ att.proofs[i].verification_status \in {"VERIFIED", "DEMO_MODE"}
                                   /\ att.proofs[i].verification_status = "VERIFIED" <=> (~keyMissing /\ reportObtained(att.answers[i]))

C21_Witness == /\ ~keyMissing
               /\ \E i, j, k \in 1..Len(att.proofs) :
                     /\ att.answers[i].status = 503 /\ att.proofs[i].verification_status = "DEMO_MODE"
                     /\ att.answers[j].kind = "throw" /\ att.proofs[j].verification_status = "DEMO_MODE"
                     /\ reportObtained(att.answers[k]) /\ att.proofs[k].verification_status = "VERIFIED"

\* C22: a proof has verified = true only if a report was obtained from the attestation
\* service for its request; a demo proof is not marked verified
C22_VerifiedOnlyWithReport == \A i \in 1..Len(att.proofs) : att.proofs[i].verified => reportObtained(att.answers[i])

\* the entries of the log file within the time range of the view
inWindow == SelectSeq(auditView.logFile, LAMBDA log : log.age <= auditView.hours)

RECURSIVE sumOver(_, _)
sumOver(f, S) == IF S = {} THEN 0 ELSE LET m == CHOOSE x \in S : TRUE IN f[m] + sumOver(f, S \ {m})

\* C23: the summary the endpoint answers with counts the log entries whose timestamp is
\* within the last `hours` hours: total_queries is their number, the encrypted,
\* TEE-verified, session and per-model counts are taken over exactly those entries, the
\* per-model counts add up to total_queries, and encryption_rate and
\* avg_response_length are 0 when no entry is in the window
C23_SummaryCountsWindow == (auditView.pc = "answered" /\ "total_queries" \in DOMAIN auditView.summaryData) =>
                                LET d == auditView.summaryData
                                    n == Len(inWindow)
                                IN /\ d.period_hours = auditView.hours
                                   /\ d.total_queries = n
                                   /\ d.encrypted_queries = Cardinality({i \in 1..n : inWindow[i].encryption_enabled})
                                   /\ d.tee_verified_queries = Cardinality({i \in 1..n : inWindow[i].tee_verified})
                                   /\ d.unique_sessions = Cardinality({inWindow[i].user_id : i \in 1..n})
                                   /\ \A m \in DOMAIN d.model_usage : d.model_usage[m] = Cardinality({i \in 1..n : inWindow[i].model = m \/ (m = "unknown" /\ inWindow[i].model = "undefined")})
                                   /\ \A i \in 1..n : modelOf(inWindow[i]) \in DOMAIN d.model_usage
                                   /\ sumOver(d.model_usage, DOMAIN d.model_usage) = d.total_queries
                                   /\ n = 0 => (d.encryption_rate = 0 /\ d.avg_response_length = 0)
                                   /\ n > 0 => (2 * n * d.encryption_rate \in (200 * d.encrypted_queries - n + 1)..(200 * d.encrypted_queries + n))

C23_Witness == /\ auditView.pc = "answered"
               /\ "total_queries" \in DOMAIN auditView.summaryData
               /\ Len(auditView.logFile) = MaxLogged
               /\ auditView.summaryData.total_queries = 1
               /\ auditView.summaryData.encrypted_queries = 1
               /\ auditView.hours = 24

\* C24: the key is generated at most once, every call of encryptData and decryptData
\* uses that key, and decryptData on the output of an earlier encryptData returns the
\* text that was encrypted, for every interleaving of the calls
C24_OneKey == /\ keys.generated <= 1
              /\ \A c \in Callers : keys.proc[c].pc = "haveKey" => keys.proc[c].key = keys.cachedKey
              /\ \A p \in keys.produced : p.encrypted.key = keys.cachedKey
              /\ \A o \in keys.opened : o.result.ok /\ o.result.text = o.plaintext

\* the request of slot r was sent by a handler of the chat and is not yet answered
inFlight(r) == call[r].op \in clientOps /\ pc[r] \in {"posted", "stage1", "esearch", "efetch", "final", "audit"}

\* C25: at most one request of the chat is in flight at any time, and isLoading is
\* true as long as one is
C25_OneRequestInFlight == /\ Cardinality({r \in AllReqs : inFlight(r)}) <= 1
                          /\ (\E r \in AllReqs : inFlight(r)) => chat.isLoading

completedQueries == {r \in AllReqs : call[r].op \in clientOps /\ pc[r] = "closed" /\ resp[r].kind = "success"}

\* C27: the query counter of the page equals the number of queries the chat sent and
\* the server completed successfully, whichever operation sent them
C27_CounterCountsQueries == home.queryCount = Cardinality(completedQueries)

\* the reference line of number k for article a, as the prompt writes it (route.ts 183-185)
referenceLine(k, a) == <<"[", ToString(k), "] ", a.title, "\nPMID: ", a.pmid>>

\* C28: the cited_articles of a success response are the articles of the literature
\* context of the final prompt, in the same order: reference k of the prompt is the
\* k-th returned article and the prompt has no other reference; without a literature
\* search the list is empty
C28_CitedMatchesContext == \A r \in AllReqs : resp[r].kind = "success" =>
                                LET cited == resp[r].cited_articles
                                    context == srv[r].literatureContext
                                IN /\ ~req[r].search_literature => (cited = <<>> /\ srv[r].userContent = req[r].encrypted_query)
                                   /\ Len(cited) > 0 =>
                                         /\ req[r].search_literature
                                         /\ includes(srv[r].userContent, context)
                                         /\ Cardinality({i \in 1..Len(context) : context[i] = "["}) = Len(cited)
                                         /\ \A k \in 1..Len(cited) : MatchAt(context, 1 + 7 * (k - 1), referenceLine(k, cited[k]))
                                   /\ (req[r].search_literature /\ Len(cited) = 0) => ~\E i \in 1..Len(srv[r].userContent) : srv[r].userContent[i] = "["

C28_Witness == \E r \in AllReqs : /\ resp[r].kind = "success"
                                  /\ Len(resp[r].cited_articles) >= 2
                                  /\ resp[r].cited_articles[1].pmid # resp[r].cited_articles[2].pmid

\* a list names no keyword twice
noRepeat(list) == \A i, j \in 1..Len(list) : list[i] = list[j] => i = j

\* C29: after any sequence of keyword-panel actions the selected keywords are among the
\* suggested ones, and neither list names a keyword twice
C29_PanelListsConsistent == /\ Range(chat.selectedKeywords) \subseteq Range(chat.suggestedKeywords)
                            /\ noRepeat(chat.selectedKeywords)
                            /\ noRepeat(chat.suggestedKeywords)

\* C30: the test script never ends before its summary, every check performed has its
\* pass or fail line, and at the summary Passed plus Failed is the number of checks
C30_ScriptReachesSummary == /\ script.pc # "exited"
                            /\ Len(script.lines) = Len(script.performed)
                            /\ script.summary => script.PASSED + script.FAILED = Len(script.performed)
====
